---------------------------- MODULE Spec2Model ----------------------------
(***************************************************************************)
(* Risk & originality scoring engine of the proctoring service.            *)
(*                                                                         *)
(* Scores are floats in the source (multipliers 1.5, 1.2, ...).  The model *)
(* keeps them exact as integers in units of 1/Scale: a stored value v      *)
(* stands for the number v / Scale.                                        *)
(***************************************************************************)
EXTENDS Integers, Sequences, FiniteSets, Bags, TLC

VARIABLES
    ruleEvents,   \* the `events` argument handed to a rule engine
    ruleOut,      \* what the engine returned for it
    expired,      \* how many rows of _events are older than the analysis window
    requests,     \* how many requests the backend has accepted
    events,       \* MockDatabase._events
    scores,       \* MockDatabase._scores
    llm_cache,    \* RiskScorer.llm_cache
    code_cache,   \* CodeAnalyzer.code_cache
    tasks,        \* request handlers suspended at an await
    call,         \* the handler that returned last, with its response
    events_storage, \* server/api.py: events_storage, session -> list of events
    risk_scores,  \* server/api.py: risk_scores, session -> last calculate_risk result
    oracle_calls,  \* the behaviour-oracle round trips started, by (session, count, elapsed)
    response_text,  \* the text the originality oracle answered
    judgment,  \* what the originality judgment made of it
    now,  \* time.time(), in ticks
    last_request_time,  \* RateLimiter.last_request_time of each model's limiter
    lock,  \* RateLimiter.lock of each model's limiter, with its holder
    callers,  \* the threads and coroutines that call the client
    loop_thread,  \* the coroutine the event loop's thread is running
    client,  \* the oracle client that was constructed, with its credential
    window,  \* the events handed to the pattern detector
    detected,  \* what the detector and the score made of them
    code_snapshots,  \* the standalone server's code_snapshots: session -> the codes posted
    participants,  \* ProctoringService._participants: participant_id -> ParticipantState
    interviews  \* InterviewSession.sessions: session_id -> session_data

serverVars == <<events_storage, risk_scores, oracle_calls>>

parseVars == <<response_text, judgment>>

limiterVars == <<now, last_request_time, lock, callers, loop_thread>>

clientVars == <<client>>

patternVars == <<window, detected>>

snapshotVars == <<code_snapshots>>

participantVars == <<participants>>

interviewVars == <<interviews>>

vars == <<ruleEvents, ruleOut, expired, requests, events, scores, llm_cache, code_cache, tasks, call,
          serverVars, parseVars, limiterVars, clientVars, patternVars, snapshotVars, participantVars, interviewVars>>

-----------------------------------------------------------------------------
(* Bounds *)

MaxList == 3
MaxEvents == 2
MaxRequests == 3
MaxTasks == 2

-----------------------------------------------------------------------------
(* Arithmetic *)

RECURSIVE Pow(_, _)
Pow(b, n) == IF n = 0 THEN 1 ELSE b * Pow(b, n - 1)

Min(a, b) == IF a < b THEN a ELSE b
Max(a, b) == IF a > b THEN a ELSE b

\* One score point.  10^(MaxList-1) holds a product of up to MaxList-1
\* one-decimal multipliers exactly; the factor 2 holds a halved sum.
Scale == 2 * Pow(10, MaxList - 1)

-----------------------------------------------------------------------------
(* Events *)

Sessions == {"S1", "S2"}

\* An event dict.  `keys` are the keys present in its metadata; a field whose
\* key is absent is never read (MetaGet returns the caller's default).
Ev(type, keys, len, sev, cnt, ts) ==
    [event_type |-> type, keys |-> keys, textLength |-> len, severity |-> sev,
     currentCount |-> cnt, timestamp |-> ts]

MetaGet(e, key, default) ==
    IF key \in e.keys
    THEN CASE key = "textLength" -> e.textLength
           [] key = "severity" -> e.severity
           [] key = "currentCount" -> e.currentCount
    ELSE default

Plain(type) == Ev(type, {}, 0, "normal", 1, 0)
Paste(len) == Ev("clipboard_paste", {"textLength"}, len, "normal", 1, 0)
Face(sev, cnt) == Ev("face_detection", {"severity", "currentCount"}, 0, sev, cnt, 0)

EventRules ==
    [devtools_detected  |-> [base_score |-> 30, multiplier10 |-> 15, critical |-> TRUE,  dynamic_score |-> FALSE],
     extension_detected |-> [base_score |-> 20, multiplier10 |-> 12, critical |-> TRUE,  dynamic_score |-> FALSE],
     clipboard_paste    |-> [base_score |-> 5,  multiplier10 |-> 13, critical |-> FALSE, dynamic_score |-> TRUE],
     clipboard_copy     |-> [base_score |-> 0,  multiplier10 |-> 10, critical |-> FALSE, dynamic_score |-> FALSE],
     tab_switch         |-> [base_score |-> 10, multiplier10 |-> 11, critical |-> FALSE, dynamic_score |-> FALSE],
     visibility_change  |-> [base_score |-> 15, multiplier10 |-> 12, critical |-> FALSE, dynamic_score |-> FALSE],
     face_detection     |-> [base_score |-> 0,  multiplier10 |-> 10, critical |-> FALSE, dynamic_score |-> TRUE]]

RuleTypes == DOMAIN EventRules

CalculateDynamicScore(e, rule) ==
    IF e.event_type = "clipboard_paste"
    THEN LET text_length == MetaGet(e, "textLength", 0) IN
         IF text_length > 500 THEN rule.base_score + 40
         ELSE IF text_length > 200 THEN rule.base_score + 25
         ELSE IF text_length > 100 THEN rule.base_score + 15
         ELSE IF text_length > 50 THEN rule.base_score + 8
         ELSE rule.base_score + 3
    ELSE IF e.event_type = "face_detection"
    THEN LET severity == MetaGet(e, "severity", "normal")
             current_count == MetaGet(e, "currentCount", 1) IN
         IF severity = "critical" THEN 15 * current_count
         ELSE IF severity = "warning" THEN 3
         ELSE 0
    ELSE rule.base_score

\* The score of one event before the repeat multiplier, in points.
EventScore(e) ==
    LET rule == EventRules[e.event_type] IN
    IF rule.dynamic_score /\ e.keys # {}
    THEN CalculateDynamicScore(e, rule)
    ELSE rule.base_score

\* score * multiplier ** (count - 1), in units of 1/Scale.
Escalate(score, multiplier10, count) ==
    2 * score * Pow(multiplier10, count - 1) * Pow(10, MaxList - count)

NoCounts == [t \in RuleTypes |-> 0]

RECURSIVE RulesLoop(_, _, _)
RulesLoop(evs, i, acc) ==
    IF i > Len(evs) THEN acc
    ELSE LET e == evs[i] IN
         IF e.event_type \notin RuleTypes
         THEN RulesLoop(evs, i + 1, acc)
         ELSE LET rule == EventRules[e.event_type]
                  count == acc.event_counts[e.event_type] + 1
                  score == Escalate(EventScore(e), rule.multiplier10, count)
              IN RulesLoop(evs, i + 1,
                   [total_score |-> acc.total_score + score,
                    event_counts |-> [acc.event_counts EXCEPT ![e.event_type] = count],
                    critical_events |-> IF rule.critical
                                        THEN Append(acc.critical_events, e.event_type)
                                        ELSE acc.critical_events])

\* An engine that keeps its per-type counts from the call before.
AnalyzeByRulesCarried(evs) ==
    LET acc == RulesLoop(evs, 1, [total_score |-> 0, event_counts |-> ruleOut.event_counts,
                                  critical_events |-> <<>>])
    IN [score |-> Min(100 * Scale, acc.total_score),
        critical_count |-> Len(acc.critical_events),
        critical_events |-> acc.critical_events,
        event_counts |-> acc.event_counts]

AnalyzeByRules(evs) ==
    LET acc == RulesLoop(evs, 1, [total_score |-> 0, event_counts |-> NoCounts,
                                  critical_events |-> <<>>])
    IN [score |-> Min(100 * Scale, acc.total_score),
        critical_count |-> Len(acc.critical_events),
        critical_events |-> acc.critical_events,
        event_counts |-> acc.event_counts]

\* proctoring/risk_scorer.py: the weight-table engine of the standalone server.
\* Its event dicts are flat: "type" is event_type and "textLength" a top-level key.
EventWeights ==
    [devtools_detected |-> 30, clipboard_paste |-> 20, extension_detected |-> 20,
     tab_switch |-> 10, window_blur |-> 8, visibility_hidden |-> 10,
     suspicious_keyboard |-> 15, clipboard_copy |-> 3, clipboard_cut |-> 2]

WeightTypes == DOMAIN EventWeights

CountOf(evs, i, type) == Cardinality({j \in 1..i : evs[j].event_type = type})

EventWeight(evs, i) ==
    LET e == evs[i]
        event_type == e.event_type
        base_weight == IF event_type \in WeightTypes THEN EventWeights[event_type] ELSE 0
    IN IF event_type = "clipboard_paste"
       THEN LET text_length == MetaGet(e, "textLength", 0) IN
            IF text_length > 500 THEN base_weight + 20
            ELSE IF text_length > 200 THEN base_weight + 10
            ELSE base_weight
       ELSE IF event_type = "devtools_detected" THEN 30
       ELSE IF event_type \in {"tab_switch", "visibility_hidden"}
       THEN LET count == CountOf(evs, i, event_type) IN
            IF count > 5 THEN base_weight + 5 * (count - 5) ELSE base_weight
       ELSE base_weight

RECURSIVE WeightSum(_, _)
WeightSum(evs, i) == IF i = 0 THEN 0 ELSE WeightSum(evs, i - 1) + EventWeight(evs, i)

RuleBasedScoring(evs) == Min(100, WeightSum(evs, Len(evs))) * Scale

-----------------------------------------------------------------------------
(* Pattern detector *)

\* sorted(..., reverse=True) of the timestamps: insertion into a descending list.
RECURSIVE InsertDesc(_, _)
InsertDesc(x, sorted) ==
    IF sorted = <<>> THEN <<x>>
    ELSE IF x > Head(sorted) THEN <<x>> \o sorted
    ELSE <<Head(sorted)>> \o InsertDesc(x, Tail(sorted))

\* the timestamps in the order they were supplied
Unsorted(xs) == xs

RECURSIVE SortDesc(_)
SortDesc(xs) == IF xs = <<>> THEN <<>> ELSE InsertDesc(Head(xs), SortDesc(Tail(xs)))

Abs(x) == IF x < 0 THEN -x ELSE x

Pattern(type, severity) == [type |-> type, severity |-> severity]

DetectSuspiciousPatterns(evs) ==
    LET paste_events == SelectSeq(evs, LAMBDA e : e.event_type = "clipboard_paste")
        stamps == SortDesc([i \in 1..Len(paste_events) |-> paste_events[i].timestamp])
        recent_pastes == SubSeq(stamps, 1, Min(5, Len(stamps)))
        rapid == /\ Len(paste_events) > 3
                 /\ Len(recent_pastes) >= 2
                 /\ \E i \in 1..(Len(recent_pastes) - 1) :
                        Abs(recent_pastes[i] - recent_pastes[i + 1]) < 5000
        devtools_events == SelectSeq(evs, LAMBDA e : e.event_type = "devtools_detected")
        extension_events == SelectSeq(evs, LAMBDA e : e.event_type = "extension_detected")
        large_pastes == SelectSeq(paste_events, LAMBDA e : MetaGet(e, "textLength", 0) > 200)
        tab_switches == SelectSeq(evs, LAMBDA e : e.event_type = "tab_switch")
        face_detection_events == SelectSeq(evs, LAMBDA e : e.event_type = "face_detection")
        critical_face_events ==
            SelectSeq(face_detection_events, LAMBDA e : "severity" \in e.keys /\ e.severity = "critical")
        warning_face_events ==
            SelectSeq(face_detection_events, LAMBDA e : "severity" \in e.keys /\ e.severity = "warning")
    IN  (IF rapid THEN <<Pattern("rapid_pasting", "high")>> ELSE <<>>)
     \o (IF devtools_events # <<>> /\ paste_events # <<>>
         THEN <<Pattern("devtools_with_paste", "critical")>> ELSE <<>>)
     \o (IF extension_events # <<>> /\ large_pastes # <<>>
         THEN <<Pattern("extension_with_large_paste", "high")>> ELSE <<>>)
     \o (IF Len(tab_switches) > 5
         THEN <<Pattern("excessive_tab_switching", "medium")>> ELSE <<>>)
     \o (IF Len(critical_face_events) > 0
         THEN <<Pattern("multiple_people_detected", "critical")>> ELSE <<>>)
     \o (IF Len(warning_face_events) > 5
         THEN <<Pattern("frequent_disappearance", "high")>> ELSE <<>>)

\* a bonus that does not depend on the severity
SeverityBonusFlat(severity) == 30

SeverityBonus(severity) ==
    IF severity = "critical" THEN 30
    ELSE IF severity = "high" THEN 20
    ELSE IF severity = "medium" THEN 10
    ELSE 0

RECURSIVE BonusSum(_, _)
BonusSum(patterns, i) ==
    IF i = 0 THEN 0 ELSE BonusSum(patterns, i - 1) + SeverityBonus(patterns[i].severity)

CalculateFinalScore(rule_score, patterns) ==
    rule_score + BonusSum(patterns, Len(patterns)) * Scale

PatternFlags(type) ==
    CASE type = "rapid_pasting" -> {"clipboard_paste"}
      [] type = "devtools_with_paste" -> {"devtools_detected", "clipboard_paste"}
      [] type = "extension_with_large_paste" -> {"extension_detected", "clipboard_paste"}
      [] type = "excessive_tab_switching" -> {"tab_switch"}
      [] type = "multiple_people_detected" -> {"face_detection"}
      [] type = "frequent_disappearance" -> {"face_detection"}
      [] OTHER -> {}

\* list(flagged): a set of event types; the order of the list is not modelled.
GetFlaggedEvents(rule_analysis, patterns) ==
    {rule_analysis.critical_events[i] : i \in 1..Len(rule_analysis.critical_events)}
    \cup UNION {PatternFlags(patterns[i].type) : i \in 1..Len(patterns)}

\* BehaviorAnalyzer.analyze_session on the rows _get_session_events fetched.
AnalyzeSession(evs) ==
    IF evs = <<>>
    THEN [rule_based_score |-> 0, flagged_events |-> {}, final_score |-> 0]
    ELSE LET rule_analysis == AnalyzeByRules(evs)
             patterns == DetectSuspiciousPatterns(evs)
             final_score == CalculateFinalScore(rule_analysis.score, patterns)
         IN [rule_based_score |-> rule_analysis.score,
             flagged_events |-> GetFlaggedEvents(rule_analysis, patterns),
             final_score |-> Min(100 * Scale, Max(0, final_score))]

-----------------------------------------------------------------------------
(* Session score store *)

\* Optional[x]: <<>> is None, <<x>> a value.
None == <<>>
Some(x) == <<x>>

\* INSERT INTO proctoring_events: one row appended per event of the batch, stamped
\* with utcnow() instead of the client's timestamp.  Time is kept relative to
\* the reader: a row is inside the 30-minute window or older (see `expired`),
\* and the rows inside it are stamped within five seconds of each other.
RECURSIVE MockInsertEvents(_, _, _)
MockInsertEvents(db_events, session_id, batch) ==
    IF batch = <<>> THEN db_events
    ELSE MockInsertEvents(
            Append(db_events, [session_id |-> session_id,
                               event |-> [Head(batch) EXCEPT !.timestamp = 0]]),
            session_id, Tail(batch))

\* MockDatabase.fetch with _get_session_events: the session's rows with
\* timestamp >= utcnow() - 30 minutes, oldest first (rows are appended in time
\* order, so the rows older than the window are the first `old` ones).
GetSessionEvents(db_events, session_id, old) ==
    LET fresh == SubSeq(db_events, old + 1, Len(db_events))
        rows == SelectSeq(fresh, LAMBDA r : r.session_id = session_id)
    IN [i \in 1..Len(rows) |-> rows[i].event]

\* A store that adds the new rule score to the one it holds.
MockUpsertScoreAdding(db_scores, session_id, rule_based_score, llm_risk_score, final_score, flagged_events) ==
    [x \in DOMAIN db_scores \cup {session_id} |->
        IF x = session_id
        THEN [rule_based_score |-> IF x \in DOMAIN db_scores
                                   THEN db_scores[x].rule_based_score + rule_based_score
                                   ELSE rule_based_score,
              llm_risk_score |-> llm_risk_score,
              final_score |-> final_score,
              flagged_events |-> flagged_events,
              llm_recommendation |-> None,
              llm_reasoning |-> None]
        ELSE db_scores[x]]

\* MockDatabase.execute, the INSERT INTO proctoring_scores branch.
MockUpsertScore(db_scores, session_id, rule_based_score, llm_risk_score, final_score, flagged_events) ==
    [x \in DOMAIN db_scores \cup {session_id} |->
        IF x = session_id
        THEN [rule_based_score |-> rule_based_score,
              llm_risk_score |-> llm_risk_score,
              final_score |-> final_score,
              flagged_events |-> flagged_events,
              llm_recommendation |-> None,
              llm_reasoning |-> None]
        ELSE db_scores[x]]

\* An update that ignores its WHERE clause.
MockUpdateRecommendationAll(db_scores, llm_recommendation, llm_reasoning, session_id) ==
    [x \in DOMAIN db_scores |->
        [db_scores[x] EXCEPT !.llm_recommendation = llm_recommendation,
                             !.llm_reasoning = llm_reasoning]]

\* MockDatabase.execute, the UPDATE proctoring_scores branch.
MockUpdateRecommendation(db_scores, llm_recommendation, llm_reasoning, session_id) ==
    IF session_id \in DOMAIN db_scores
    THEN [db_scores EXCEPT ![session_id].llm_recommendation = llm_recommendation,
                           ![session_id].llm_reasoning = llm_reasoning]
    ELSE db_scores

\* (rule_based_score + llm_risk_score) / 2, or the rule score alone.
FinalScore(rule_based_score, llm_risk_score) ==
    IF llm_risk_score # None
    THEN (rule_based_score + llm_risk_score[1] * Scale) \div 2
    ELSE rule_based_score

UpdateSessionScore(db_scores, session_id, rule_based_score, flagged_events, llm_risk_score) ==
    MockUpsertScore(db_scores, session_id, rule_based_score, llm_risk_score,
                    FinalScore(rule_based_score, llm_risk_score), flagged_events)

\* A reader that answers for a missing row with the row of another session.
GetSessionScoreOfAny(db_scores, session_id) ==
    IF session_id \in DOMAIN db_scores THEN Some(db_scores[session_id])
    ELSE IF DOMAIN db_scores = {} THEN None
    ELSE Some(db_scores[CHOOSE x \in DOMAIN db_scores : TRUE])

\* RiskScorer.get_session_score: None or the stored row.
GetSessionScore(db_scores, session_id) ==
    IF session_id \in DOMAIN db_scores THEN Some(db_scores[session_id]) ELSE None

\* The penalty without its clamp at 100.
PenalizedScoreUnclamped(current_score, originality_score) ==
    LET rule_based_score == IF current_score # None THEN current_score[1].rule_based_score ELSE 0
    IN IF originality_score < 50
       THEN rule_based_score + (50 - originality_score) * Scale
       ELSE rule_based_score

\* flag_suspicious_code up to its update: the rule score it will write.
PenalizedScore(current_score, originality_score) ==
    LET rule_based_score == IF current_score # None THEN current_score[1].rule_based_score ELSE 0
    IN IF originality_score < 50
       THEN Min(100 * Scale, rule_based_score + (50 - originality_score) * Scale)
       ELSE rule_based_score

CalculateRiskLevel(score) ==
    IF score >= 80 * Scale THEN "critical"
    ELSE IF score >= 60 * Scale THEN "high"
    ELSE IF score >= 40 * Scale THEN "medium"
    ELSE IF score >= 20 * Scale THEN "low"
    ELSE "minimal"

-----------------------------------------------------------------------------
(* Code originality *)

\* A code text is its lines and its newline style; a line is its
\* whitespace-separated tokens and whether whitespace leads or trails it.
\* The comment markers "//" and "#" are tokens of their own.
L(lead, tokens, trail) == [lead |-> lead, tokens |-> tokens, trail |-> trail]
Code(lines, crlf) == [lines |-> lines, crlf |-> crlf]

IsBlank(line) == line.tokens = <<>>

RECURSIVE IndexOf(_, _, _)
IndexOf(tokens, tok, i) ==
    IF i > Len(tokens) THEN 0
    ELSE IF tokens[i] = tok THEN i
    ELSE IndexOf(tokens, tok, i + 1)

\* line[:line.index('//')] and strip(): the tokens before the first "//".
StripSlashComment(line) ==
    LET at == IndexOf(line.tokens, "//", 1) IN
    IF at = 0 THEN line.tokens ELSE SubSeq(line.tokens, 1, at - 1)

\* proctoring/code_analyzer.py: _normalize_code.
RECURSIVE NormalizeLines(_)
NormalizeLines(lines) ==
    IF lines = <<>> THEN <<>>
    ELSE LET line == StripSlashComment(Head(lines)) IN
         (IF line # <<>> THEN <<line>> ELSE <<>>) \o NormalizeLines(Tail(lines))

\* sha256 is modelled as injective: a hash is the text it was taken of.
GenerateCodeHash(code) == NormalizeLines(code.lines)

\* backend/analysis/code_analyzer.py: hash_code, the hash of the text as given.
HashCode(code) == code

\* server/analyzers/code_originality.py: _hash_code, code.strip() with "\n" newlines.
RECURSIVE DropBlankHead(_)
DropBlankHead(lines) ==
    IF lines # <<>> /\ IsBlank(Head(lines)) THEN DropBlankHead(Tail(lines)) ELSE lines

RECURSIVE DropBlankTail(_)
DropBlankTail(lines) ==
    IF lines # <<>> /\ IsBlank(lines[Len(lines)])
    THEN DropBlankTail(SubSeq(lines, 1, Len(lines) - 1))
    ELSE lines

StripText(lines) ==
    LET kept == DropBlankTail(DropBlankHead(lines)) IN
    [i \in 1..Len(kept) |->
        [kept[i] EXCEPT !.lead = IF i = 1 THEN FALSE ELSE @,
                        !.trail = IF i = Len(kept) THEN FALSE ELSE @]]

ServerHashCode(code) == Code(StripText(code.lines), FALSE)

\* int(x) of the quotient n / d, d > 0: truncation toward zero.
Trunc(n, d) == IF n >= 0 THEN n \div d ELSE -((-n) \div d)

\* proctoring/code_analyzer.py: _combine_scores.
CombineScores(local_score, llm_score) == Trunc(3 * local_score + 7 * llm_score, 10)

HasPair(code, first, second) ==
    \E i \in 1..Len(code.lines) :
        \E j \in 1..(Len(code.lines[i].tokens) - 1) :
            code.lines[i].tokens[j] = first /\ code.lines[i].tokens[j + 1] = second

\* proctoring/code_analyzer.py: _local_analysis, the score it returns.
LocalAnalysis(code) ==
    LET lines == code.lines
        non_empty_lines == {i \in 1..Len(lines) : ~IsBlank(lines[i])}
        comment_lines == {i \in 1..Len(lines) :
                             \/ ~IsBlank(lines[i]) /\ lines[i].tokens[1] = "//"
                             \/ IndexOf(lines[i].tokens, "/*", 1) # 0}
        too_short == Cardinality(non_empty_lines) < 3
        \* len(comment_lines) / len(non_empty_lines) > 0.5
        many_comments == /\ non_empty_lines # {}
                         /\ 2 * Cardinality(comment_lines) > Cardinality(non_empty_lines)
        found_patterns == \/ HasPair(code, "//", "TODO:")
                          \/ HasPair(code, "//", "FIXME:")
                          \/ HasPair(code, "def", "solution(")
                          \/ HasPair(code, "function", "solution(")
                          \/ HasPair(code, "class", "Solution")
        n == (IF too_short THEN 1 ELSE 0) + (IF many_comments THEN 1 ELSE 0)
             + (IF found_patterns THEN 1 ELSE 0)
    IN Max(0, Min(100, 100 - n * 10))

\* The tokens that are alphabetic words of more than two letters.
AlphaWords == {"def", "note", "other", "return", "class", "Solution", "function", "total", "value"}

\* backend/analysis/code_analyzer.py: _local_code_analysis, its is_suspicious.
\* The repeated-comment rule needs six comment lines; the texts analysed here
\* have fewer, so only the identifier rule can make a text suspicious.
LocalCodeAnalysis(code) ==
    LET unique_vars == {w \in AlphaWords :
                           \E i \in 1..Len(code.lines) : IndexOf(code.lines[i].tokens, w, 1) # 0}
        comment_count == Cardinality({i \in 1..Len(code.lines) :
                              /\ ~IsBlank(code.lines[i])
                              /\ code.lines[i].tokens[1] \in {"//", "#"}})
    IN comment_count > 5 \/ Cardinality(unique_vars) < 5

\* What SciBoxClient.analyze_code_originality returned: the oracle's verdict, or
\* its own fallback (score 50) when the call or the parse failed.
OracleVerdict(score, patterns) == [originality_score |-> score, suspicious_patterns |-> patterns]

Verdict(score, patterns, cached) ==
    [originality_score |-> score, suspicious_patterns |-> patterns, cached |-> cached]

\* cache[key] = value on a dict.
DictPut(dict, key, value) ==
    [x \in DOMAIN dict \cup {key} |-> IF x = key THEN value ELSE dict[x]]

\* backend/analysis/code_analyzer.py: CodeAnalyzer.analyze_originality.
\* No bank of solutions exists, so _find_similar_solutions returns [].
AnalyzeOriginality(cache, code, oracle) ==
    LET code_hash == HashCode(code) IN
    IF code_hash \in DOMAIN cache
    THEN LET cached_result == [cache[code_hash] EXCEPT !.cached = Some(TRUE)] IN
         [cache |-> [cache EXCEPT ![code_hash] = cached_result],
          verdict |-> cached_result, oracle_called |-> FALSE]
    ELSE LET score == IF LocalCodeAnalysis(code)
                      THEN Max(0, oracle.originality_score - 20)
                      ELSE oracle.originality_score
             final_result == Verdict(score, oracle.suspicious_patterns, Some(FALSE))
         IN [cache |-> DictPut(cache, code_hash, final_result),
             verdict |-> final_result, oracle_called |-> TRUE]

\* proctoring/code_analyzer.py: CodeOriginalityAnalyzer.analyze.
ProctoringAnalyzeCode(cache, code, oracle) ==
    LET code_hash == GenerateCodeHash(code) IN
    IF code_hash \in DOMAIN cache
    THEN [cache |-> cache,
          verdict |-> [cache[code_hash] EXCEPT !.cached = Some(TRUE)],
          oracle_called |-> FALSE]
    ELSE LET result == Verdict(CombineScores(LocalAnalysis(code), oracle.originality_score),
                               oracle.suspicious_patterns, Some(FALSE))
         IN [cache |-> DictPut(cache, code_hash, result),
             verdict |-> result, oracle_called |-> TRUE]

CacheLimit == 1000
EvictCount == 100

\* The server's cache is a dict read in insertion order: a sequence of entries.
CacheFind(cache, key) ==
    LET at == {i \in 1..Len(cache) : cache[i].key = key} IN
    IF at = {} THEN 0 ELSE CHOOSE i \in at : TRUE

\* server/analyzers/code_originality.py: CodeOriginalityAnalyzer.analyze.
\* No base of reference solutions exists: similarity_score is None and the
\* verdict is the oracle's, without a "cached" key until it is served again.
ServerAnalyzeCode(cache, code, oracle) ==
    LET code_hash == ServerHashCode(code)
        at == CacheFind(cache, code_hash)
    IN IF at # 0
       THEN [cache |-> cache,
             verdict |-> [cache[at].value EXCEPT !.cached = Some(TRUE)],
             oracle_called |-> FALSE]
       ELSE LET result == Verdict(oracle.originality_score, oracle.suspicious_patterns, None)
                stored == Append(cache, [key |-> code_hash, value |-> result])
            IN [cache |-> IF Len(stored) > CacheLimit
                          THEN SubSeq(stored, EvictCount + 1, Len(stored))
                          ELSE stored,
                verdict |-> result, oracle_called |-> TRUE]

-----------------------------------------------------------------------------
(* Inputs *)

\* Event dicts handed to the rule engines.
RuleAlphabet ==
    {Plain("devtools_detected"), Plain("extension_detected"), Plain("tab_switch"),
     Plain("clipboard_paste"), Paste(600), Paste(0),
     Face("critical", 2), Face("critical", -1), Face("warning", 1),
     Plain("mouse_move")}

\* Batches a client posts to /api/proctoring/events.
Batches ==
    {<<Plain("devtools_detected"), Paste(600)>>,
     <<Face("critical", -1)>>}

\* What the behaviour oracle (analyze_proctoring_behavior) can hand back: its
\* fallback after a failed call and a verdict with an out-of-range score.
LlmResult(risk_score, flagged_events, recommendation, reasoning) ==
    [risk_score |-> risk_score, flagged_events |-> flagged_events,
     recommendation |-> recommendation, reasoning |-> reasoning]

LlmResults ==
    {LlmResult(Some(50), {}, Some("watch"), Some("error")),
     LlmResult(Some(150), {"tab_switch"}, Some("fail"), Some("why"))}

NoLlm == LlmResult(None, {}, None, None)

\* len(events) and elapsed_time of a request_llm_analysis call.
LlmLens == {1}
LlmElapsed == {0}

OracleVerdicts == {OracleVerdict(50, <<>>), OracleVerdict(90, <<>>)}

Text1 == Code(<<L(FALSE, <<"x", "=", "1">>, FALSE)>>, FALSE)
Text1Commented ==
    Code(<<L(TRUE, <<"x", "=", "1", "//", "note">>, TRUE), L(FALSE, <<>>, FALSE)>>, FALSE)
Text1Hash == Code(<<L(FALSE, <<"x", "=", "1", "#", "note">>, FALSE)>>, FALSE)
Text2 ==
    Code(<<L(FALSE, <<"def", "total", "(", "value", ")", ":">>, FALSE),
           L(TRUE, <<"return", "value", "+", "other", "+", "note">>, FALSE)>>, FALSE)

CodeSamples == {Text1, Text1Commented, Text1Hash, Text2}

\* Texts posted to /api/proctoring/code-snapshot.
SnapshotCodes == {Text1}

-----------------------------------------------------------------------------
(* Suspended handlers *)

\* A coroutine waiting at an await, with the locals it will still read.
Task(op, session_id, pc) ==
    [op |-> op, session_id |-> session_id, pc |-> pc,
     rule_based_score |-> 0, final_score |-> 0, flagged_events |-> {},
     current_score |-> None, originality_score |-> 0,
     llm_result |-> NoLlm, cache_key |-> <<>>]

Suspended == BagToSet(tasks)
Resume(t, next) == (tasks (-) SetToBag({t})) (+) SetToBag({next})
Finish(t) == tasks (-) SetToBag({t})
Spawn(t) == tasks (+) SetToBag({t})

NoCall == [op |-> "none"]
NoOut == [engine |-> "none", score |-> 0, critical_count |-> 0, event_counts |-> NoCounts]
EmptyCaches == [backend |-> <<>>, proctoring |-> <<>>, server |-> <<>>]

\* SciBoxConfig.models: two of the three models, each with a rate limiter of its own
Models == {"bge-m3", "qwen3-coder"}

Rps(model) == IF model = "bge-m3" THEN 7 ELSE 2

\* the clock counts in 1/14 s, so that both 1/7 s and 1/2 s are whole
TicksPerSecond == 14

\* RateLimiter.min_interval = 1.0 / rps
MinInterval(model) == TicksPerSecond \div Rps(model)

\* the clock at start-up: far enough from the epoch that no first call waits
StartTime == TicksPerSecond

\* executor threads that run the synchronous client, and request coroutines
Threads == {"w1", "w2"}
Coroutines == {"c1", "c2"}
AllCallers == Threads \cup Coroutines

Caller(pc, model, wake, slept) ==
    [pc |-> pc, model |-> model, wake |-> wake, slept |-> slept]

IdleCaller == Caller("idle", "", 0, FALSE)

\* no oracle client was constructed yet
NoClient == [kind |-> "none", api_key |-> <<>>]

\* the detector has not run on the window
NoDetection ==
    [done |-> FALSE, patterns |-> <<>>, rule_score |-> 0, final_score |-> 0,
     flagged_events |-> {}, server_flagged |-> {}]

\* the originality judgment before any oracle response was handled
NoJudgment == [made |-> FALSE, raised |-> FALSE, score |-> 0]

Init ==
    /\ ruleEvents = <<>>
    /\ ruleOut = NoOut
    /\ expired = 0
    /\ requests = 0
    /\ events = <<>>
    /\ scores = <<>>
    /\ llm_cache = <<>>
    /\ code_cache = EmptyCaches
    /\ tasks = EmptyBag
    /\ call = NoCall
    /\ events_storage = <<>>
    /\ risk_scores = <<>>
    /\ oracle_calls = EmptyBag
    /\ response_text = <<>>
    /\ judgment = NoJudgment
    /\ now = StartTime
    /\ last_request_time = <<>>
    /\ lock = [m \in Models |-> None]
    /\ callers = [p \in AllCallers |-> IdleCaller]
    /\ loop_thread = None
    /\ client = NoClient
    /\ window = <<>>
    /\ detected = NoDetection
    /\ code_snapshots = <<>>
    /\ participants = <<>>
    /\ interviews = <<>>

-----------------------------------------------------------------------------
(* Rule engines called on a list *)

RuleInput(e) ==
    /\ Len(ruleEvents) < MaxList
    /\ ruleEvents' = Append(ruleEvents, e)
    /\ ruleOut' = NoOut
    /\ UNCHANGED <<expired, requests, events, scores, llm_cache, code_cache, tasks, call, serverVars, parseVars, limiterVars, clientVars, patternVars, snapshotVars, participantVars, interviewVars>>

RunAnalyzeByRules ==
    /\ LET r == AnalyzeByRules(ruleEvents) IN
       ruleOut' = [engine |-> "analyze_by_rules", score |-> r.score,
                   critical_count |-> r.critical_count, event_counts |-> r.event_counts]
    /\ UNCHANGED <<ruleEvents, expired, requests, events, scores, llm_cache, code_cache, tasks, call, serverVars, parseVars, limiterVars, clientVars, patternVars, snapshotVars, participantVars, interviewVars>>

RunRuleBasedScoring ==
    /\ ruleOut' = [engine |-> "rule_based_scoring", score |-> RuleBasedScoring(ruleEvents),
                   critical_count |-> 0, event_counts |-> NoCounts]
    /\ UNCHANGED <<ruleEvents, expired, requests, events, scores, llm_cache, code_cache, tasks, call, serverVars, parseVars, limiterVars, clientVars, patternVars, snapshotVars, participantVars, interviewVars>>

\* groups that count the events of the rule table only
GroupKnownEvents(evs) ==
    [t \in {evs[i].event_type : i \in 1..Len(evs)} \cap RuleTypes |->
        Cardinality({i \in 1..Len(evs) : evs[i].event_type = t})]

\* _group_events_by_type: the number of events of every type in the list
GroupEventsByType(evs) ==
    [t \in {evs[i].event_type : i \in 1..Len(evs)} |->
        Cardinality({i \in 1..Len(evs) : evs[i].event_type = t})]

\* analyze_session on the events read: the rule analysis and the statistics
\* it reports
RunAnalyzeSession ==
    /\ ruleEvents /= <<>>
    /\ LET rule_analysis == AnalyzeByRules(ruleEvents)
           event_groups == GroupEventsByType(ruleEvents)
       IN  ruleOut' = [engine |-> "analyze_session", score |-> rule_analysis.score,
                       critical_count |-> rule_analysis.critical_count,
                       event_counts |-> rule_analysis.event_counts,
                       events_by_type |-> event_groups]
    /\ UNCHANGED <<ruleEvents, expired, requests, events, scores, llm_cache, code_cache, tasks, call, serverVars, parseVars, limiterVars, clientVars, patternVars, snapshotVars, participantVars, interviewVars>>

NextRules ==
    \/ \E e \in RuleAlphabet : RuleInput(e)
    \/ RunAnalyzeByRules
    \/ RunRuleBasedScoring
    \/ RunAnalyzeSession

SpecRules == Init /\ [][NextRules]_vars

-----------------------------------------------------------------------------
(* Backend request handlers.                                               *)
(* A handler gives up control only at `await get_db()` (get_db retries     *)
(* init_db while no pool exists); each action below runs one handler from  *)
(* one such await to the next.  A request starts at its first action: the  *)
(* handler has no effect before it.                                        *)

\* Time passes: the k oldest rows are now older than the window.
Tick(k) ==
    /\ k > expired
    /\ expired' = k
    /\ UNCHANGED <<ruleEvents, ruleOut, requests, events, scores, llm_cache, code_cache, tasks, call, serverVars, parseVars, limiterVars, clientVars, patternVars, snapshotVars, participantVars, interviewVars>>

\* receive_events: the batch is stored.
IngestStore(session_id, batch) ==
    /\ requests < MaxRequests
    /\ Len(events) + Len(batch) <= MaxEvents
    /\ BagCardinality(tasks) < MaxTasks
    /\ requests' = requests + 1
    /\ events' = MockInsertEvents(events, session_id, batch)
    /\ tasks' = Spawn(Task("receive_events", session_id, "analyze"))
    /\ UNCHANGED <<ruleEvents, ruleOut, expired, scores, llm_cache, code_cache, call, serverVars, parseVars, limiterVars, clientVars, patternVars, snapshotVars, participantVars, interviewVars>>

\* receive_events: analyze_session fetches the window and scores it.
IngestAnalyze(t) ==
    /\ t.op = "receive_events" /\ t.pc = "analyze"
    /\ LET risk_result == AnalyzeSession(GetSessionEvents(events, t.session_id, expired)) IN
       tasks' = Resume(t, [t EXCEPT !.pc = "update",
                                    !.rule_based_score = risk_result.rule_based_score,
                                    !.flagged_events = risk_result.flagged_events,
                                    !.final_score = risk_result.final_score])
    /\ UNCHANGED <<ruleEvents, ruleOut, expired, requests, events, scores, llm_cache, code_cache, call, serverVars, parseVars, limiterVars, clientVars, patternVars, snapshotVars, participantVars, interviewVars>>

\* receive_events: update_session_score, then the response.
IngestUpdate(t) ==
    /\ t.op = "receive_events" /\ t.pc = "update"
    /\ scores' = UpdateSessionScore(scores, t.session_id, t.rule_based_score,
                                    t.flagged_events, None)
    /\ call' = [op |-> "receive_events", session_id |-> t.session_id,
                rule_based_score |-> t.rule_based_score,
                current_risk_score |-> t.final_score,
                flagged_events |-> t.flagged_events]
    /\ tasks' = Finish(t)
    /\ UNCHANGED <<ruleEvents, ruleOut, expired, requests, events, llm_cache, code_cache, serverVars, parseVars, limiterVars, clientVars, patternVars, snapshotVars, participantVars, interviewVars>>

SnapshotResponse(session_id, code, out, flagged) ==
    [op |-> "receive_code_snapshot", session_id |-> session_id, code |-> code,
     verdict |-> out.verdict, oracle_called |-> out.oracle_called, flagged |-> flagged]

\* receive_code_snapshot: analyze_originality; the INSERT INTO code_snapshots is
\* no statement MockDatabase knows; a score under 50 goes on to
\* flag_suspicious_code, which waits for the database.
SnapshotAnalyze(session_id, code, oracle) ==
    LET out == AnalyzeOriginality(code_cache.backend, code, oracle) IN
    /\ requests < MaxRequests
    /\ requests' = requests + 1
    /\ code_cache' = [code_cache EXCEPT !.backend = out.cache]
    /\ IF out.verdict.originality_score < 50
       THEN /\ BagCardinality(tasks) < MaxTasks
            /\ tasks' = Spawn([Task("receive_code_snapshot", session_id, "flag_read")
                                 EXCEPT !.originality_score = out.verdict.originality_score])
            /\ call' = call
       ELSE /\ tasks' = tasks
            /\ call' = SnapshotResponse(session_id, code, out, FALSE)
    /\ UNCHANGED <<ruleEvents, ruleOut, expired, events, scores, llm_cache, serverVars, parseVars, limiterVars, clientVars, patternVars, snapshotVars, participantVars, interviewVars>>

\* flag_suspicious_code: get_session_score, the penalty, and the append to
\* flagged_events, which is the stored row's own list when a row exists.
FlagRead(t) ==
    /\ t.op = "receive_code_snapshot" /\ t.pc = "flag_read"
    /\ LET current_score == GetSessionScore(scores, t.session_id)
           flagged_events == (IF current_score # None THEN current_score[1].flagged_events ELSE {})
                             \cup {"suspicious_code"}
       IN /\ scores' = IF current_score # None
                       THEN [scores EXCEPT ![t.session_id].flagged_events = flagged_events]
                       ELSE scores
          /\ tasks' = Resume(t, [t EXCEPT !.pc = "flag_update",
                                          !.current_score = current_score,
                                          !.rule_based_score =
                                              PenalizedScore(current_score, t.originality_score),
                                          !.flagged_events = flagged_events])
    /\ UNCHANGED <<ruleEvents, ruleOut, expired, requests, events, llm_cache, code_cache, call, serverVars, parseVars, limiterVars, clientVars, patternVars, snapshotVars, participantVars, interviewVars>>

\* flag_suspicious_code: update_session_score, then the handler's response.
FlagUpdate(t) ==
    /\ t.op = "receive_code_snapshot" /\ t.pc = "flag_update"
    /\ scores' = UpdateSessionScore(scores, t.session_id, t.rule_based_score,
                                    t.flagged_events, None)
    /\ call' = [op |-> "flag_suspicious_code", session_id |-> t.session_id,
                originality_score |-> t.originality_score,
                current_score |-> t.current_score]
    /\ tasks' = Finish(t)
    /\ UNCHANGED <<ruleEvents, ruleOut, expired, requests, events, llm_cache, code_cache, serverVars, parseVars, limiterVars, clientVars, patternVars, snapshotVars, participantVars, interviewVars>>

\* request_llm_analysis: the cache, and on a miss the oracle call.
LlmCall(session_id, n, elapsed_time, answer) ==
    LET cache_key == <<session_id, n, elapsed_time>> IN
    /\ requests < MaxRequests
    /\ requests' = requests + 1
    /\ IF cache_key \in DOMAIN llm_cache
       THEN /\ call' = [op |-> "request_llm_analysis", session_id |-> session_id,
                        cache_key |-> cache_key, llm_result |-> llm_cache[cache_key],
                        oracle_called |-> FALSE]
            /\ tasks' = tasks
       ELSE /\ BagCardinality(tasks) < MaxTasks
            /\ tasks' = Spawn([Task("request_llm_analysis", session_id, "store")
                                 EXCEPT !.llm_result = answer, !.cache_key = cache_key])
            /\ call' = call
    /\ UNCHANGED <<ruleEvents, ruleOut, expired, events, scores, llm_cache, code_cache, serverVars, parseVars, limiterVars, clientVars, patternVars, snapshotVars, participantVars, interviewVars>>

\* request_llm_analysis: update_session_score with the oracle's answer.
LlmStore(t) ==
    /\ t.op = "request_llm_analysis" /\ t.pc = "store"
    /\ scores' = UpdateSessionScore(scores, t.session_id, 0,
                                    t.llm_result.flagged_events, t.llm_result.risk_score)
    /\ tasks' = Resume(t, [t EXCEPT !.pc = "recommend"])
    /\ UNCHANGED <<ruleEvents, ruleOut, expired, requests, events, llm_cache, code_cache, call, serverVars, parseVars, limiterVars, clientVars, patternVars, snapshotVars, participantVars, interviewVars>>

\* request_llm_analysis: the recommendation, the cache entry, the return.
LlmRecommend(t) ==
    /\ t.op = "request_llm_analysis" /\ t.pc = "recommend"
    /\ scores' = MockUpdateRecommendation(scores, t.llm_result.recommendation,
                                          t.llm_result.reasoning, t.session_id)
    /\ llm_cache' = DictPut(llm_cache, t.cache_key, t.llm_result)
    /\ call' = [op |-> "request_llm_analysis", session_id |-> t.session_id,
                cache_key |-> t.cache_key, llm_result |-> t.llm_result,
                oracle_called |-> TRUE]
    /\ tasks' = Finish(t)
    /\ UNCHANGED <<ruleEvents, ruleOut, expired, requests, events, code_cache, serverVars, parseVars, limiterVars, clientVars, patternVars, snapshotVars, participantVars, interviewVars>>

\* get_risk_score: the body of the response, for the row get_session_score found
RiskScoreResponse(session_id, result) ==
    IF result = None
    THEN [op |-> "get_risk_score", session_id |-> session_id,
          rule_based_score |-> 0, llm_risk_score |-> None, final_score |-> 0,
          flagged_events |-> {}, status |-> "no_data"]
    ELSE [op |-> "get_risk_score", session_id |-> session_id,
          rule_based_score |-> result[1].rule_based_score,
          llm_risk_score |-> result[1].llm_risk_score,
          final_score |-> result[1].final_score,
          flagged_events |-> result[1].flagged_events, status |-> "monitoring"]

\* GET /api/proctoring/score/{session_id}
GetRiskScore(session_id) ==
    /\ requests < MaxRequests
    /\ requests' = requests + 1
    /\ call' = RiskScoreResponse(session_id, GetSessionScore(scores, session_id))
    /\ UNCHANGED <<ruleEvents, ruleOut, expired, events, scores, llm_cache, code_cache, tasks, serverVars, parseVars, limiterVars, clientVars, patternVars, snapshotVars, participantVars, interviewVars>>

Next ==
    \/ \E k \in 1..Len(events) : Tick(k)
    \/ \E s \in Sessions, b \in Batches : IngestStore(s, b)
    \/ \E t \in Suspended : IngestAnalyze(t)
    \/ \E t \in Suspended : IngestUpdate(t)
    \/ \E s \in Sessions, c \in SnapshotCodes, o \in OracleVerdicts : SnapshotAnalyze(s, c, o)
    \/ \E t \in Suspended : FlagRead(t)
    \/ \E t \in Suspended : FlagUpdate(t)
    \/ \E s \in Sessions, n \in LlmLens, e \in LlmElapsed, a \in LlmResults : LlmCall(s, n, e, a)
    \/ \E t \in Suspended : LlmStore(t)
    \/ \E t \in Suspended : LlmRecommend(t)
    \/ \E s \in Sessions : GetRiskScore(s)

Spec == Init /\ [][Next]_vars

-----------------------------------------------------------------------------
(* The three code analyzers, each called on its own.  They belong to       *)
(* different applications (backend, standalone server, server package), so *)
(* a run uses one of them.                                                  *)

Analyzers == {"backend", "proctoring", "server"}

OnlyAnalyzer(analyzer) ==
    \A other \in Analyzers \ {analyzer} : DOMAIN code_cache[other] = {}

AnalyzeResponse(analyzer, code, out) ==
    [op |-> "analyze", analyzer |-> analyzer, code |-> code,
     verdict |-> out.verdict, oracle_called |-> out.oracle_called]

\* backend CodeAnalyzer.analyze_originality(code, ...).
BackendAnalyze(code, oracle) ==
    LET out == AnalyzeOriginality(code_cache.backend, code, oracle) IN
    /\ OnlyAnalyzer("backend")
    /\ code_cache' = [code_cache EXCEPT !.backend = out.cache]
    /\ call' = AnalyzeResponse("backend", code, out)
    /\ UNCHANGED <<ruleEvents, ruleOut, expired, requests, events, scores, llm_cache, tasks, serverVars, parseVars, limiterVars, clientVars, patternVars, snapshotVars, participantVars, interviewVars>>

\* proctoring CodeOriginalityAnalyzer.analyze(code, ...).
ProctoringAnalyze(code, oracle) ==
    LET out == ProctoringAnalyzeCode(code_cache.proctoring, code, oracle) IN
    /\ OnlyAnalyzer("proctoring")
    /\ code_cache' = [code_cache EXCEPT !.proctoring = out.cache]
    /\ call' = AnalyzeResponse("proctoring", code, out)
    /\ UNCHANGED <<ruleEvents, ruleOut, expired, requests, events, scores, llm_cache, tasks, serverVars, parseVars, limiterVars, clientVars, patternVars, snapshotVars, participantVars, interviewVars>>

\* server CodeOriginalityAnalyzer.analyze(code, ...).
ServerAnalyze(code, oracle) ==
    LET out == ServerAnalyzeCode(code_cache.server, code, oracle) IN
    /\ OnlyAnalyzer("server")
    /\ code_cache' = [code_cache EXCEPT !.server = out.cache]
    /\ call' = AnalyzeResponse("server", code, out)
    /\ UNCHANGED <<ruleEvents, ruleOut, expired, requests, events, scores, llm_cache, tasks, serverVars, parseVars, limiterVars, clientVars, patternVars, snapshotVars, participantVars, interviewVars>>

NextCode ==
    \/ \E c \in CodeSamples, o \in OracleVerdicts : BackendAnalyze(c, o)
    \/ \E c \in CodeSamples, o \in OracleVerdicts : ProctoringAnalyze(c, o)
    \/ \E c \in CodeSamples, o \in OracleVerdicts : ServerAnalyze(c, o)

SpecCode == Init /\ [][NextCode]_vars

-----------------------------------------------------------------------------
(* Properties *)

InRange(score) == 0 <= score /\ score <= 100 * Scale

\* C1: for every event list, the score the rule engine returns
\* (_analyze_by_rules, and _rule_based_scoring) lies in [0,100].
C1_RuleScoreInRange ==
    ruleOut.engine # "none" => InRange(ruleOut.score)

SessionRows(s) == SelectSeq(events, LAMBDA r : r.session_id = s)

\* C2: when one event batch and one deep analysis of the same session have
\* both completed, in whichever order their steps ran, the stored record holds
\* the rule score and flagged events of the ingested events and the oracle's
\* llm_risk_score.
C2_NeitherSideDropped ==
    \A s \in Sessions :
        LET key == <<s, 1, 0>> IN
        (/\ requests = 2
         /\ tasks = EmptyBag
         /\ expired = 0
         /\ SessionRows(s) # <<>>
         /\ key \in DOMAIN llm_cache)
        => LET risk_result == AnalyzeSession(GetSessionEvents(events, s, expired)) IN
           /\ s \in DOMAIN scores
           /\ scores[s].rule_based_score = risk_result.rule_based_score
           /\ risk_result.flagged_events \subseteq scores[s].flagged_events
           /\ scores[s].llm_risk_score = llm_cache[key].risk_score

\* The step of request_llm_analysis that applies the oracle's result to s.
AppliesOracle(s) ==
    \E t \in Suspended :
        /\ t.op = "request_llm_analysis" /\ t.pc = "store" /\ t.session_id = s
        /\ tasks' = Resume(t, [t EXCEPT !.pc = "recommend"])

\* C3: applying a deep-oracle result to a session never lowers the stored
\* rule_based_score and never removes a flagged event the record held.
C3_OracleKeepsRuleScore ==
    [][\A s \in Sessions :
          (AppliesOracle(s) /\ s \in DOMAIN scores)
          => /\ scores'[s].rule_based_score >= scores[s].rule_based_score
             /\ scores[s].flagged_events \subseteq scores'[s].flagged_events]_vars

\* round(n / d) for d > 0, ties to even, as Python's round.
RoundHalfEven(n, d) ==
    LET q == n \div d
        r == n % d
    IN IF 2 * r < d THEN q
       ELSE IF 2 * r > d THEN q + 1
       ELSE IF q % 2 = 0 THEN q ELSE q + 1

\* C4: every stored record has final_score = rule_based_score when it has no
\* llm_risk_score, and round(0.4*rule_based_score + 0.6*llm_risk_score) when
\* it has one.
C4_FinalIsCombiner ==
    \A s \in DOMAIN scores :
        LET row == scores[s] IN
        row.final_score =
            IF row.llm_risk_score = None
            THEN row.rule_based_score
            ELSE RoundHalfEven(4 * row.rule_based_score + 6 * row.llm_risk_score[1] * Scale,
                               10 * Scale) * Scale

\* C5: every stored record has rule_based_score, final_score and, when present,
\* llm_risk_score within [0,100], whatever the oracle returned.
C5_StoredScoresInRange ==
    \A s \in DOMAIN scores :
        /\ InRange(scores[s].rule_based_score)
        /\ InRange(scores[s].final_score)
        /\ scores[s].llm_risk_score # None => InRange(scores[s].llm_risk_score[1] * Scale)

Scenario == <<Plain("devtools_detected"), Paste(600)>>

\* C6: once the batch [devtools_detected, clipboard_paste{textLength: 600}] is
\* the only request served, the session's stored final_score is 100 and its
\* flagged events include devtools_detected and clipboard_paste.
C6_ScenarioStoresHundred ==
    \A s \in Sessions :
        (/\ requests = 1
         /\ tasks = EmptyBag
         /\ expired = 0
         /\ s \in DOMAIN scores
         /\ GetSessionEvents(events, s, expired) = Scenario)
        => /\ scores[s].final_score = 100 * Scale
           /\ {"devtools_detected", "clipboard_paste"} \subseteq scores[s].flagged_events

\* Arguments of update_session_score.
UpsertArgs ==
    [rule_based_score : {0, 20 * Scale},
     flagged_events : {{}, {"suspicious_code"}},
     llm_risk_score : {None, Some(50)}]

\* C7: the upsert keeps one record per session, and applying the same update a
\* second time leaves the store as the first application left it.
C7_UpsertIdempotent ==
    \A s \in Sessions, a \in UpsertArgs :
        LET once == UpdateSessionScore(scores, s, a.rule_based_score,
                                       a.flagged_events, a.llm_risk_score)
            twice == UpdateSessionScore(once, s, a.rule_based_score,
                                        a.flagged_events, a.llm_risk_score)
        IN /\ twice = once
           /\ DOMAIN once = DOMAIN scores \cup {s}
           /\ once[s].rule_based_score = a.rule_based_score
           /\ \A x \in DOMAIN scores \ {s} : once[x] = scores[x]

\* A record written more than once: by ingestion, then by the code flag.
C7_Witness ==
    \E s \in DOMAIN scores :
        /\ tasks = EmptyBag
        /\ requests >= 2
        /\ scores[s].rule_based_score > 20 * Scale
        /\ "suspicious_code" \in scores[s].flagged_events

\* The step of flag_suspicious_code that writes the record, for handler t.
WritesFlag(t) ==
    /\ t.op = "receive_code_snapshot" /\ t.pc = "flag_update"
    /\ tasks' = Finish(t)

\* C8: flag_suspicious_code with originality o < 50 writes the rule score
\* min(100, previous + (50 - o)), where previous is the rule score of the
\* record get_session_score returned and 0 when there was none, and the
\* flagged events it writes hold "suspicious_code"; o = 30 adds exactly 20
\* where the clamp leaves room.
C8_FlagPenalty ==
    [][\A t \in Suspended :
          WritesFlag(t)
          => LET s == t.session_id
                 o == t.originality_score
                 previous == IF t.current_score = None THEN 0
                             ELSE t.current_score[1].rule_based_score
             IN /\ o < 50
                /\ s \in DOMAIN scores'
                /\ scores'[s].rule_based_score = Min(100 * Scale, previous + (50 - o) * Scale)
                /\ "suspicious_code" \in scores'[s].flagged_events
                /\ (o = 30 /\ previous <= 80 * Scale)
                   => scores'[s].rule_based_score = previous + 20 * Scale]_vars

\* A flag with o = 30 was written on top of a record, and the clamp cut it.
C8_Witness ==
    /\ call.op = "flag_suspicious_code"
    /\ call.originality_score = 30
    /\ call.current_score # None
    /\ call.current_score[1].rule_based_score > 80 * Scale
    /\ scores[call.session_id].rule_based_score = 100 * Scale

CacheEntries(analyzer) ==
    IF analyzer = "server"
    THEN {code_cache.server[i] : i \in 1..Len(code_cache.server)}
    ELSE {[key |-> k, value |-> code_cache[analyzer][k]] : k \in DOMAIN code_cache[analyzer]}

\* An entry was made by a text with the normalized form of `code`.  The keys of
\* the backend and the server are texts (sha256 is injective here), the key of
\* the proctoring analyzer is the normalized form itself.
SameNormalizedCode(analyzer, key, code) ==
    IF analyzer = "proctoring"
    THEN key = GenerateCodeHash(code)
    ELSE GenerateCodeHash(key) = GenerateCodeHash(code)

\* C10: an analysis of a code whose normalized form was analysed before returns
\* a verdict marked cached, with the score of that first analysis, and asks the
\* oracle nothing.
C10_ResubmissionIsCached ==
    [][\A e \in CacheEntries(call'.analyzer) :
          (call'.op = "analyze" /\ SameNormalizedCode(call'.analyzer, e.key, call'.code))
          => /\ call'.verdict.cached = Some(TRUE)
             /\ call'.verdict.originality_score = e.value.originality_score
             /\ ~call'.oracle_called]_vars

\* C11: a cached originality record is never changed once inserted: every
\* entry of an analyzer's cache is still there, with the same score, patterns
\* and cached flag, after any analysis.
C11_CachedRecordImmutable ==
    [][\A a \in Analyzers : \A e \in CacheEntries(a) : e \in CacheEntries(a)']_vars

\* The content hash an analyzer keys its cache by.
ContentHash(analyzer, code) ==
    CASE analyzer = "backend" -> HashCode(code)
      [] analyzer = "proctoring" -> GenerateCodeHash(code)
      [] analyzer = "server" -> ServerHashCode(code)

\* The tokens of a line before its comment, whichever the comment marker.
RECURSIVE BeforeComment(_)
BeforeComment(tokens) ==
    IF tokens = <<>> \/ Head(tokens) \in {"//", "#"} THEN <<>>
    ELSE <<Head(tokens)>> \o BeforeComment(Tail(tokens))

\* A text without comments, surrounding whitespace, blank lines and newline style.
RECURSIVE Uncommented(_)
Uncommented(lines) ==
    IF lines = <<>> THEN <<>>
    ELSE LET line == BeforeComment(Head(lines).tokens) IN
         (IF line # <<>> THEN <<line>> ELSE <<>>) \o Uncommented(Tail(lines))

DifferOnlyInCommentsAndWhitespace(c1, c2) == Uncommented(c1.lines) = Uncommented(c2.lines)

\* C12: two snippets that differ only in comment text and whitespace have the
\* same content hash in the analyzer that analysed one of them.
C12_SameHashUpToComments ==
    call.op = "analyze"
    => \A c \in CodeSamples :
           DifferOnlyInCommentsAndWhitespace(call.code, c)
           => ContentHash(call.analyzer, call.code) = ContentHash(call.analyzer, c)

-----------------------------------------------------------------------------
(* The standalone server: proctoring/server/api.py with                    *)
(* proctoring/risk_scorer.py.  receive_events runs without a break up to   *)
(* the await of the oracle in calculate_risk, and from the oracle's return *)
(* to its response.                                                         *)

\* n copies of an event.
Repeat(e, n) == [i \in 1..n |-> e]

\* Batches a client posts to the server's /api/proctoring/events.
ServerBatches ==
    {<<>>,
     <<Plain("tab_switch")>>,
     <<Plain("devtools_detected"), Paste(600)>>,
     Repeat(Plain("mouse_move"), 20)}

\* proctoring/risk_scorer.py: _get_flagged_events.
ServerFlaggedEvents(evs) ==
    LET n == Len(evs)
        types == {evs[i].event_type : i \in 1..n}
    IN (types \cap {"devtools_detected", "extension_detected"})
       \cup (IF \E i \in 1..n : /\ evs[i].event_type = "clipboard_paste"
                                /\ MetaGet(evs[i], "textLength", 0) > 200
             THEN {"large_code_paste"} ELSE {})
       \cup (IF \E i \in 1..n : /\ evs[i].event_type \in {"tab_switch", "visibility_hidden"}
                                /\ CountOf(evs, n, evs[i].event_type) > 3
             THEN {"excessive_tab_switching"} ELSE {})

\* The thresholds taken inclusively.
NeedsLlmAnalysisFrom(rule_based_score, events_count) ==
    rule_based_score >= 50 * Scale \/ events_count >= 20

\* calculate_risk: the condition under which it asks the oracle.
NeedsLlmAnalysis(rule_based_score, events_count) ==
    rule_based_score > 50 * Scale \/ events_count > 20

\* What analyze_proctoring_behavior hands back: the parsed JSON of the oracle's
\* text, or its own fallback dict when the call or the parse raised.  shape is
\* the JSON type, risk the state of the "risk_score" key, error the fallback.
ServerAnswer(shape, risk, value, error) ==
    [shape |-> shape, risk |-> risk, value |-> value, error |-> error]

ServerAnswers ==
    {ServerAnswer("object", "number", 80, FALSE),
     ServerAnswer("object", "number", 50, TRUE),
     ServerAnswer("object", "absent", 0, FALSE),
     ServerAnswer("object", "null", 0, FALSE),
     ServerAnswer("array", "absent", 0, FALSE)}

\* calculate_risk, the body of its try block after the oracle returned:
\* llm_analysis.get on a non-dict and None * 0.6 raise.
LlmBlend(rule_based_score, llm_analysis) ==
    IF llm_analysis.shape # "object"
    THEN [raised |-> TRUE, llm_risk_score |-> None, final_score |-> rule_based_score]
    ELSE IF llm_analysis.risk = "null"
    THEN [raised |-> TRUE, llm_risk_score |-> None, final_score |-> rule_based_score]
    ELSE LET llm_risk_score == IF llm_analysis.risk = "absent" THEN 0 ELSE llm_analysis.value
         IN [raised |-> FALSE, llm_risk_score |-> Some(llm_risk_score),
             final_score |-> Trunc(4 * rule_based_score + 6 * llm_risk_score * Scale,
                                   10 * Scale) * Scale]

\* No except clause: the error goes on to the handler.
LetLlmErrorPass(blend) == blend

\* calculate_risk's except clause: the error is printed, not raised.
CatchLlmError(blend) == [blend EXCEPT !.raised = FALSE]

RiskResult(session_id, rule_based_score, blend, flagged_events, events_count) ==
    [session_id |-> session_id, rule_based_score |-> rule_based_score,
     llm_risk_score |-> blend.llm_risk_score, final_score |-> blend.final_score,
     flagged_events |-> flagged_events, events_count |-> events_count]

ServerResponse(session_id, risk_result) ==
    [op |-> "server_receive_events", status |-> "ok", session_id |-> session_id,
     current_risk_score |-> risk_result.rule_based_score,
     flagged_events |-> risk_result.flagged_events]

\* raise HTTPException(status_code=500, ...).
ServerError(session_id) ==
    [op |-> "server_receive_events", status |-> "error", session_id |-> session_id,
     current_risk_score |-> 0, flagged_events |-> {}]

StoredEvents(session_id) ==
    IF session_id \in DOMAIN events_storage THEN events_storage[session_id] ELSE <<>>

\* receive_events up to the await in calculate_risk, or to its response when
\* calculate_risk asks no oracle.
ServerReceive(session_id, batch) ==
    LET evs == StoredEvents(session_id) \o batch
        rule_based_score == RuleBasedScoring(evs)
        flagged_events == ServerFlaggedEvents(evs)
        key == <<session_id, Len(evs), 0>>
    IN /\ requests < MaxRequests
       /\ requests' = requests + 1
       /\ events_storage' = DictPut(events_storage, session_id, evs)
       /\ IF NeedsLlmAnalysis(rule_based_score, Len(evs))
          THEN /\ BagCardinality(tasks) < MaxTasks
               /\ tasks' = Spawn([Task("server_receive_events", session_id, "oracle")
                                    EXCEPT !.rule_based_score = rule_based_score,
                                           !.flagged_events = flagged_events,
                                           !.cache_key = key])
               /\ oracle_calls' = oracle_calls (+) SetToBag({key})
               /\ UNCHANGED <<risk_scores, call>>
          ELSE LET risk_result ==
                       RiskResult(session_id, rule_based_score,
                                  [raised |-> FALSE, llm_risk_score |-> None,
                                   final_score |-> rule_based_score],
                                  flagged_events, Len(evs))
               IN /\ risk_scores' = DictPut(risk_scores, session_id, risk_result)
                  /\ call' = ServerResponse(session_id, risk_result)
                  /\ UNCHANGED <<tasks, oracle_calls>>
       /\ UNCHANGED <<ruleEvents, ruleOut, expired, events, scores, llm_cache, code_cache, parseVars, limiterVars, clientVars, patternVars, snapshotVars, participantVars, interviewVars>>

\* The executor thread returns from analyze_proctoring_behavior.
OracleReturn(t, answer) ==
    /\ t.op = "server_receive_events" /\ t.pc = "oracle"
    /\ tasks' = Resume(t, [t EXCEPT !.pc = "resume", !.llm_result = answer])
    /\ UNCHANGED <<ruleEvents, ruleOut, expired, requests, events, scores, llm_cache,
                   code_cache, call, serverVars, parseVars, limiterVars, clientVars, patternVars, snapshotVars, participantVars, interviewVars>>

\* receive_events from the oracle's return to its response.
ServerRespond(t) ==
    /\ t.op = "server_receive_events" /\ t.pc = "resume"
    /\ LET blend == CatchLlmError(LlmBlend(t.rule_based_score, t.llm_result))
           risk_result == RiskResult(t.session_id, t.rule_based_score, blend,
                                     t.flagged_events, Len(StoredEvents(t.session_id)))
       IN IF blend.raised
          THEN /\ call' = ServerError(t.session_id)
               /\ risk_scores' = risk_scores
          ELSE /\ call' = ServerResponse(t.session_id, risk_result)
               /\ risk_scores' = DictPut(risk_scores, t.session_id, risk_result)
    /\ tasks' = Finish(t)
    /\ UNCHANGED <<ruleEvents, ruleOut, expired, requests, events, scores, llm_cache,
                   code_cache, events_storage, oracle_calls, parseVars, limiterVars, clientVars, patternVars, snapshotVars, participantVars, interviewVars>>

NextServer ==
    \/ \E s \in Sessions, b \in ServerBatches : ServerReceive(s, b)
    \/ \E t \in Suspended, a \in ServerAnswers : OracleReturn(t, a)
    \/ \E t \in Suspended : ServerRespond(t)

SpecServer == Init /\ [][NextServer]_vars

-----------------------------------------------------------------------------
(* Properties of the standalone server *)

\* C13: the handler that ingests events never waits for the oracle: no
\* receive_events is suspended on the oracle's round trip.
C13_IngestionNeverWaitsForOracle ==
    \A t \in Suspended : t.op = "server_receive_events" => t.pc # "oracle"

\* The step in which the server takes a batch of session s: it answers at once
\* or suspends on the oracle.
ServerServes(s) ==
    /\ requests' = requests + 1
    /\ IF tasks' = tasks
       THEN call'.op = "server_receive_events" /\ call'.session_id = s
       ELSE \E t \in BagToSet(tasks') :
                t.session_id = s /\ t.pc = "oracle" /\ tasks' = Spawn(t)

\* C14: calculate_risk starts an oracle round trip exactly when the rule score
\* is above 50 or the session holds more than 20 events; otherwise no call is
\* made, llm_risk_score is absent and final_score is the rule score.
C14_OracleOnlyAboveThreshold ==
    [][\A s \in Sessions :
          ServerServes(s)
          => LET evs == events_storage'[s]
                 rule == RuleBasedScoring(evs)
             IN /\ (oracle_calls' # oracle_calls) <=> (rule > 50 * Scale \/ Len(evs) > 20)
                /\ (rule <= 50 * Scale /\ Len(evs) <= 20)
                   => /\ tasks' = tasks
                      /\ risk_scores'[s].llm_risk_score = None
                      /\ risk_scores'[s].final_score = rule]_vars

\* The oracle was asked for 21 events whose rule score is at most 50.
C14_Witness ==
    \E t \in Suspended :
        /\ t.op = "server_receive_events" /\ t.pc = "oracle"
        /\ t.rule_based_score <= 50 * Scale
        /\ t.cache_key[2] = 21

\* C15: the same (session, event count, elapsed time) never causes a second
\* oracle call.
C15_OneOracleCallPerKey ==
    \A key \in BagToSet(oracle_calls) : CopiesIn(key, oracle_calls) <= 1

\* The step in which receive_events of handler t answers after the oracle.
RespondsAfterOracle(t) ==
    /\ t.op = "server_receive_events" /\ t.pc = "resume"
    /\ tasks' = Finish(t)

\* C16: when the oracle call failed, the result keeps the rule-based score
\* only: llm_risk_score absent and final_score equal to the rule score.
C16_FailedOracleKeepsRuleScore ==
    [][\A t \in Suspended :
          (RespondsAfterOracle(t) /\ t.llm_result.error)
          => /\ risk_scores'[t.session_id].llm_risk_score = None
             /\ risk_scores'[t.session_id].final_score = t.rule_based_score]_vars

\* C19: whatever the oracle handed back, receive_events answers ok with the
\* rule score and the flagged events it computed, and stores a result.
C19_IngestionAnswersWhateverOracle ==
    [][\A t \in Suspended :
          RespondsAfterOracle(t)
          => /\ call'.status = "ok"
             /\ call'.session_id = t.session_id
             /\ call'.current_risk_score = t.rule_based_score
             /\ call'.flagged_events = t.flagged_events
             /\ t.session_id \in DOMAIN risk_scores'
             /\ risk_scores'[t.session_id].rule_based_score = t.rule_based_score]_vars

\* An answer after the oracle handed back something calculate_risk choked on:
\* the oracle was asked (rule score above 50) and no llm_risk_score was kept.
C19_Witness ==
    /\ call.op = "server_receive_events"
    /\ call.status = "ok"
    /\ call.current_risk_score > 50 * Scale
    /\ call.session_id \in DOMAIN risk_scores
    /\ risk_scores[call.session_id].llm_risk_score = None

-----------------------------------------------------------------------------
(* The originality oracle's response text and what the judgment makes of it *)

MaxText == 3

\* A response text is a sequence of whitespace-separated pieces: prose, a
\* "```json" fence, a "```" fence, or something between braces or brackets.
Piece(kind, has_score, score) == [kind |-> kind, has_score |-> has_score, score |-> score]

Prose == Piece("prose", FALSE, 0)
FenceJson == Piece("fence_json", FALSE, 0)
Fence == Piece("fence", FALSE, 0)
ScoredObject == Piece("object", TRUE, 80)    \* {"originality_score": 80, ...}
EmptyObject == Piece("object", FALSE, 0)     \* {}
Array == Piece("array", FALSE, 0)            \* [1]
Broken == Piece("broken", FALSE, 0)          \* {oops}

Pieces == {Prose, FenceJson, Fence, ScoredObject, EmptyObject, Array, Broken}

\* except Exception: the fixed verdict of analyze_code_originality
ParseFallback == Piece("object", TRUE, 50)

\* response_text[7:] when it starts with "```json"
StripJsonFence(text) ==
    IF text /= <<>> /\ Head(text).kind = "fence_json" THEN Tail(text) ELSE text

\* response_text[3:] when it starts with "```"; of "```json" the word "json" stays
StripFence(text) ==
    IF text = <<>> THEN text
    ELSE IF Head(text).kind = "fence" THEN Tail(text)
    ELSE IF Head(text).kind = "fence_json" THEN <<Prose>> \o Tail(text)
    ELSE text

\* response_text[:-3] when it ends with "```"
StripClosingFence(text) ==
    IF text /= <<>> /\ text[Len(text)].kind = "fence" THEN SubSeq(text, 1, Len(text) - 1) ELSE text

\* json.loads: the whole text is one JSON value, or ValueError
JsonLoads(text) ==
    IF Len(text) = 1 /\ text[1].kind \in {"object", "array"} THEN Some(text[1]) ELSE None

\* SciBoxClient.analyze_code_originality, from the response text on
ParseOriginalityResponse(text) ==
    LET parsed == JsonLoads(StripClosingFence(StripFence(StripJsonFence(text))))
    IN  IF parsed = None THEN ParseFallback ELSE parsed[1]

\* CodeAnalyzer.analyze_originality reads originality_result["originality_score"]:
\* a KeyError on an object without the key, a TypeError on a list
ReadOriginalityScore(originality_result) ==
    IF originality_result.kind = "object" /\ originality_result.has_score
    THEN [made |-> TRUE, raised |-> FALSE, score |-> originality_result.score]
    ELSE [made |-> TRUE, raised |-> TRUE, score |-> 0]

OriginalityJudgment(text) == ReadOriginalityScore(ParseOriginalityResponse(text))

\* the oracle's answer arrives piece by piece
ResponseInput(piece) ==
    /\ Len(response_text) < MaxText
    /\ response_text' = Append(response_text, piece)
    /\ judgment' = NoJudgment
    /\ UNCHANGED <<ruleEvents, ruleOut, expired, requests, events, scores, llm_cache, code_cache, tasks, call, serverVars, limiterVars, clientVars, patternVars, snapshotVars, participantVars, interviewVars>>

\* chat_completion returned response_text
RunOriginalityJudgment ==
    /\ judgment' = OriginalityJudgment(response_text)
    /\ UNCHANGED <<ruleEvents, ruleOut, expired, requests, events, scores, llm_cache, code_cache, tasks, call, serverVars, response_text, limiterVars, clientVars, patternVars, snapshotVars, participantVars, interviewVars>>

\* chat_completion raised: no response text at all
OracleUnreachable ==
    /\ response_text = <<>>
    /\ judgment' = ReadOriginalityScore(ParseFallback)
    /\ UNCHANGED <<ruleEvents, ruleOut, expired, requests, events, scores, llm_cache, code_cache, tasks, call, serverVars, response_text, limiterVars, clientVars, patternVars, snapshotVars, participantVars, interviewVars>>

NextJudgment ==
    \/ \E piece \in Pieces : ResponseInput(piece)
    \/ RunOriginalityJudgment
    \/ OracleUnreachable

SpecJudgment == Init /\ [][NextJudgment]_vars

\* the first piece between braces or brackets, if any
FirstBracketed(text) ==
    LET at == {i \in 1..Len(text) : text[i].kind \in {"object", "array", "broken"}}
    IN  IF at = {} THEN None ELSE Some(text[CHOOSE i \in at : \A j \in at : i <= j])

\* the score a permissive parse finds in the text, 50 when it finds none
PermissiveScore(text) ==
    LET found == FirstBracketed(text)
    IN  IF found /= None /\ found[1].kind = "object" /\ found[1].has_score
        THEN found[1].score ELSE 50

\* C20: whatever text the oracle answered, the originality judgment does not
\* raise and carries a score: the one a permissive parse (whole text, fenced
\* block, first bracketed substring) finds, and 50 when the parse fails or the
\* parsed value lacks the score.
C20_JudgmentAlwaysScores ==
    judgment.made =>
        /\ ~judgment.raised
        /\ judgment.score = PermissiveScore(response_text)

-----------------------------------------------------------------------------
(* The client's rate limiters *)

MaxClock == 8

\* self.last_request_time.get(model, 0)
LastTime(model) ==
    IF model \in DOMAIN last_request_time THEN last_request_time[model] ELSE 0

\* a variant of SleepUntil that never sleeps
SleepUntilAtOnce(current_time, last_time, min_interval) == current_time

\* wait_if_needed: the time before which time.sleep(min_interval - elapsed) does not return
SleepUntil(current_time, last_time, min_interval) ==
    LET elapsed == current_time - last_time
    IN  IF elapsed < min_interval THEN current_time + (min_interval - elapsed) ELSE current_time

SetCaller(p, c) == [callers EXCEPT ![p] = c]

\* time passes
ClockTick ==
    /\ now < StartTime + MaxClock
    /\ now' = now + 1
    /\ UNCHANGED <<ruleEvents, ruleOut, expired, requests, events, scores, llm_cache, code_cache, tasks, call, serverVars, parseVars, last_request_time, lock, callers, loop_thread, clientVars, patternVars, snapshotVars, participantVars, interviewVars>>

\* run_in_executor: a pool thread starts a client call for a model
ThreadCall(w, model) ==
    /\ callers[w].pc = "idle"
    /\ callers' = SetCaller(w, Caller("waiting", model, 0, FALSE))
    /\ UNCHANGED <<ruleEvents, ruleOut, expired, requests, events, scores, llm_cache, code_cache, tasks, call, serverVars, parseVars, now, last_request_time, lock, loop_thread, clientVars, patternVars, snapshotVars, participantVars, interviewVars>>

\* a request arrives whose handler will call the client for a model; its
\* coroutine is scheduled on the event loop
RequestArrives(c, model) ==
    /\ callers[c].pc = "idle"
    /\ callers' = SetCaller(c, Caller("ready", model, 0, FALSE))
    /\ UNCHANGED <<ruleEvents, ruleOut, expired, requests, events, scores, llm_cache, code_cache, tasks, call, serverVars, parseVars, now, last_request_time, lock, loop_thread, clientVars, patternVars, snapshotVars, participantVars, interviewVars>>

\* the event loop runs the coroutine, which calls the synchronous client:
\* the loop's thread is the coroutine's until the call returns
CoroutineCall(c) ==
    /\ callers[c].pc = "ready"
    /\ loop_thread = None
    /\ loop_thread' = Some(c)
    /\ callers' = SetCaller(c, [callers[c] EXCEPT !.pc = "waiting"])
    /\ UNCHANGED <<ruleEvents, ruleOut, expired, requests, events, scores, llm_cache, code_cache, tasks, call, serverVars, parseVars, now, last_request_time, lock, clientVars, patternVars, snapshotVars, participantVars, interviewVars>>

\* wait_if_needed: the lock is taken, the clock and the last time are read,
\* and the caller sleeps with the lock held
WaitIfNeeded(p) ==
    LET model == callers[p].model
        wake == SleepUntil(now, LastTime(model), MinInterval(model))
    IN  /\ callers[p].pc = "waiting"
        /\ lock[model] = None
        /\ lock' = [lock EXCEPT ![model] = Some(p)]
        /\ callers' = SetCaller(p, Caller("sleeping", model, wake, wake > now))
        /\ UNCHANGED <<ruleEvents, ruleOut, expired, requests, events, scores, llm_cache, code_cache, tasks, call, serverVars, parseVars, now, last_request_time, loop_thread, clientVars, patternVars, snapshotVars, participantVars, interviewVars>>

\* wait_if_needed: the sleep is over, the time is recorded, the lock released
Admit(p) ==
    LET model == callers[p].model
    IN  /\ callers[p].pc = "sleeping"
        /\ now >= callers[p].wake
        /\ last_request_time' = DictPut(last_request_time, model, now)
        /\ lock' = [lock EXCEPT ![model] = None]
        /\ callers' = SetCaller(p, Caller("posting", model, 0, callers[p].slept))
        /\ UNCHANGED <<ruleEvents, ruleOut, expired, requests, events, scores, llm_cache, code_cache, tasks, call, serverVars, parseVars, now, loop_thread, clientVars, patternVars, snapshotVars, participantVars, interviewVars>>

\* session.post returns (or raises): the call is over
CallReturns(p) ==
    /\ callers[p].pc = "posting"
    /\ callers' = SetCaller(p, IdleCaller)
    /\ loop_thread' = IF p \in Coroutines THEN None ELSE loop_thread
    /\ UNCHANGED <<ruleEvents, ruleOut, expired, requests, events, scores, llm_cache, code_cache, tasks, call, serverVars, parseVars, now, last_request_time, lock, clientVars, patternVars, snapshotVars, participantVars, interviewVars>>

NextLimiter ==
    \/ ClockTick
    \/ \E w \in Threads, model \in Models : ThreadCall(w, model)
    \/ \E c \in Coroutines, model \in Models : RequestArrives(c, model)
    \/ \E c \in Coroutines : CoroutineCall(c)
    \/ \E p \in AllCallers : WaitIfNeeded(p)
    \/ \E p \in AllCallers : Admit(p)
    \/ \E p \in AllCallers : CallReturns(p)

SpecLimiter == Init /\ [][NextLimiter]_vars

\* the limiter admits caller p in this step
Admitted(p) == callers[p].pc = "sleeping" /\ callers'[p].pc = "posting"

\* C17: whatever the interleaving of callers, a call the limiter of a model
\* admits comes at least 1/rps seconds after the call it admitted before for
\* that model; time spent idle earns no credit, so the second of two
\* back-to-back calls always waits.
C17_AdmissionsSpaced ==
    [][\A p \in AllCallers :
        (Admitted(p) /\ callers[p].model \in DOMAIN last_request_time) =>
            last_request_time'[callers[p].model] - last_request_time[callers[p].model]
                >= MinInterval(callers[p].model)]_vars

\* a caller has just been admitted after it had to sleep, behind a call
\* that came when its model had been idle for longer than the interval
C17_Witness ==
    \E p \in AllCallers :
        /\ callers[p].pc = "posting"
        /\ callers[p].slept
        /\ last_request_time[callers[p].model] = now
        /\ now >= StartTime + 2 * MinInterval(callers[p].model)

\* caller p waits for its model's lock, or sleeps out its model's interval
WaitsOrSleeps(p) ==
    \/ callers[p].pc = "waiting" /\ lock[callers[p].model] /= None
    \/ callers[p].pc = "sleeping" /\ now < callers[p].wake

\* caller c cannot take its next step because of caller p
DelayedBy(c, p) ==
    \/ callers[c].pc = "ready" /\ loop_thread = Some(p)
    \/ callers[c].pc = "waiting" /\ lock[callers[c].model] = Some(p)

\* C18: callers for one model take turns at its limiter, and a caller that
\* waits or sleeps for one model never holds up a caller for another model,
\* callers on the async request path included.
C18_ModelsNeverBlockEachOther ==
    /\ \A m \in Models : Cardinality({p \in AllCallers : callers[p].pc = "sleeping" /\ callers[p].model = m}) <= 1
    /\ \A p, c \in AllCallers :
        (WaitsOrSleeps(p) /\ callers[c].model /= callers[p].model)
            => ~DelayedBy(c, p)

-----------------------------------------------------------------------------
(* Reading a score *)

\* server/api.py get_risk_score: the body it answers for a session
ServerGetRiskScore(stored, session_id) ==
    IF session_id \notin DOMAIN stored
    THEN [session_id |-> session_id, rule_based_score |-> 0, llm_risk_score |-> None,
          final_score |-> 0, flagged_events |-> {}, status |-> "no_data"]
    ELSE [session_id |-> session_id,
          rule_based_score |-> stored[session_id].rule_based_score,
          llm_risk_score |-> stored[session_id].llm_risk_score,
          final_score |-> stored[session_id].final_score,
          flagged_events |-> stored[session_id].flagged_events, status |-> "monitoring"]

\* the session has neither an event row nor a score row
NothingRecorded(s) == SessionRows(s) = <<>> /\ s \notin DOMAIN scores

ZeroScore(r) ==
    /\ r.rule_based_score = 0
    /\ r.final_score = 0
    /\ r.flagged_events = {}
    /\ r.llm_risk_score = None

\* C21: a read of the score of a session for which no event and no score was
\* recorded answers with the explicit zero score (rule score 0, final score 0,
\* no flagged events, no llm score), not with an error.
C21_UnknownSessionReadsZero ==
    /\ (call.op = "get_risk_score" /\ NothingRecorded(call.session_id))
            => (ZeroScore(call) /\ call.status = "no_data")
    /\ \A s \in Sessions :
        s \notin DOMAIN risk_scores => ZeroScore(ServerGetRiskScore(risk_scores, s))

\* the score of a session without records was read while another session had a score
C21_Witness ==
    /\ call.op = "get_risk_score"
    /\ NothingRecorded(call.session_id)
    /\ DOMAIN scores /= {}

-----------------------------------------------------------------------------
(* The durable store *)

\* update_session_score's statement as PostgreSQL runs it: INSERT, and on a
\* conflict on session_id an UPDATE of the five columns the statement names
DurableUpsertScore(db_scores, session_id, rule_based_score, llm_risk_score, final_score, flagged_events) ==
    IF session_id \in DOMAIN db_scores
    THEN [db_scores EXCEPT ![session_id].rule_based_score = rule_based_score,
                           ![session_id].llm_risk_score = llm_risk_score,
                           ![session_id].final_score = final_score,
                           ![session_id].flagged_events = flagged_events]
    ELSE DictPut(db_scores, session_id,
                 [rule_based_score |-> rule_based_score,
                  llm_risk_score |-> llm_risk_score,
                  final_score |-> final_score,
                  flagged_events |-> flagged_events,
                  llm_recommendation |-> None,
                  llm_reasoning |-> None])

\* C22: whatever upserts, recommendation updates and reads came before, the
\* next upsert leaves the in-memory store with the contents the durable
\* store's INSERT ... ON CONFLICT DO UPDATE would leave, llm_recommendation
\* and llm_reasoning included.
C22_MockMatchesDurable ==
    \A s \in Sessions, a \in UpsertArgs :
        UpdateSessionScore(scores, s, a.rule_based_score, a.flagged_events, a.llm_risk_score)
            = DurableUpsertScore(scores, s, a.rule_based_score, a.llm_risk_score,
                                 FinalScore(a.rule_based_score, a.llm_risk_score),
                                 a.flagged_events)

\* the llm fields of the session's record before the step
LlmFields(row) ==
    [llm_risk_score |-> row.llm_risk_score,
     llm_recommendation |-> row.llm_recommendation,
     llm_reasoning |-> row.llm_reasoning]

\* handler t finishes in this step with an update that carries no llm_risk_score
UpdatesWithoutLlm(t) ==
    /\ t \in Suspended
    /\ \/ t.op = "receive_events" /\ t.pc = "update"
       \/ t.op = "receive_code_snapshot" /\ t.pc = "flag_update"
    /\ tasks' = Finish(t)

\* C25: a score update that carries no llm_risk_score (event ingestion,
\* flag_suspicious_code) leaves the llm_risk_score, llm_recommendation and
\* llm_reasoning the session's record held unchanged.
C25_LlmFieldsKept ==
    [][\A t \in Suspended :
        (UpdatesWithoutLlm(t) /\ t.session_id \in DOMAIN scores)
            => LlmFields(scores'[t.session_id]) = LlmFields(scores[t.session_id])]_vars

-----------------------------------------------------------------------------
(* The oracle clients and the credential *)

\* SCIBOX_API_KEY, as an argument or in the environment: unset, empty or set
Credentials == {None, Some(""), Some("key")}

\* `x or y` and `not x` on an optional string
Truthy(x) == x /= None /\ x /= Some("")
OrElse(x, y) == IF Truthy(x) THEN x ELSE y

\* a submitted code: its length, and which of the texts of that length it is
Submission(length, text) == [length |-> length, text |-> text]
Submissions == {Submission(n, t) : n \in {0, 600, 1199, 1200, 1201, 1800, 2000}, t \in {"a", "b"}}

\* what POST /code/originality answers, in hundredths
OriginalityAnswers == {[originality_score |-> 10, copied |-> TRUE],
                       [originality_score |-> 90, copied |-> FALSE]}

AIVerdict(originality_score, is_copied) ==
    [originality_score |-> originality_score, is_copied |-> is_copied]

\* score_originality without a key: 0.35 and 0.82 in hundredths
OfflineVerdict(code) ==
    LET originality == IF code.length > 1200 THEN 35 ELSE 82
    IN  AIVerdict(originality, originality < 50)

\* backend/app: SciBoxClient(api_key)
NewAppClient(api_key, env) ==
    /\ client = NoClient
    /\ client' = [kind |-> "app", api_key |-> OrElse(api_key, env)]
    /\ call' = [op |-> "SciBoxClient", raised |-> FALSE]
    /\ UNCHANGED <<ruleEvents, ruleOut, expired, requests, events, scores, llm_cache, code_cache, tasks, serverVars, parseVars, limiterVars, patternVars, snapshotVars, participantVars, interviewVars>>

\* backend/app: score_originality(code)
ScoreOriginality(code, answer) ==
    /\ client.kind = "app"
    /\ call' = IF ~Truthy(client.api_key)
               THEN [op |-> "score_originality", code |-> code, network |-> FALSE,
                     verdict |-> OfflineVerdict(code)]
               ELSE [op |-> "score_originality", code |-> code, network |-> TRUE,
                     verdict |-> AIVerdict(answer.originality_score, answer.copied)]
    /\ UNCHANGED <<ruleEvents, ruleOut, expired, requests, events, scores, llm_cache, code_cache, tasks, serverVars, parseVars, limiterVars, clientVars, patternVars, snapshotVars, participantVars, interviewVars>>

\* config: get_scibox_client() builds SciBoxClient(), whose SciBoxConfig()
\* raises ValueError without a key
NewConfigClient(env) ==
    /\ client = NoClient
    /\ IF ~Truthy(env)
       THEN /\ client' = client
            /\ call' = [op |-> "get_scibox_client", raised |-> TRUE]
       ELSE /\ client' = [kind |-> "config", api_key |-> env]
            /\ call' = [op |-> "get_scibox_client", raised |-> FALSE]
    /\ UNCHANGED <<ruleEvents, ruleOut, expired, requests, events, scores, llm_cache, code_cache, tasks, serverVars, parseVars, limiterVars, patternVars, snapshotVars, participantVars, interviewVars>>

\* config: analyze_code_originality(code), always over the network
ConfigAnalyzeOriginality(code, text) ==
    /\ client.kind = "config"
    /\ call' = [op |-> "analyze_code_originality", code |-> code, network |-> TRUE,
                verdict |-> ParseOriginalityResponse(text)]
    /\ UNCHANGED <<ruleEvents, ruleOut, expired, requests, events, scores, llm_cache, code_cache, tasks, serverVars, parseVars, limiterVars, clientVars, patternVars, snapshotVars, participantVars, interviewVars>>

NextClient ==
    \/ \E k \in Credentials, env \in Credentials : NewAppClient(k, env)
    \/ \E c \in Submissions, a \in OriginalityAnswers : ScoreOriginality(c, a)
    \/ \E env \in Credentials : NewConfigClient(env)
    \/ \E c \in Submissions, p \in Pieces : ConfigAnalyzeOriginality(c, <<p>>)

SpecClient == Init /\ [][NextClient]_vars

\* C24: with no credential configured the client works offline: it is
\* constructed without an error, makes no network call, and its originality
\* verdict depends on the code's length alone: 0.35 and copied above 1200
\* characters, 0.82 and not copied otherwise.
C24_OfflineVerdict ==
    /\ call.op \in {"SciBoxClient", "get_scibox_client"} => ~call.raised
    /\ (call.op = "score_originality" /\ ~Truthy(client.api_key)) =>
            /\ ~call.network
            /\ call.verdict = IF call.code.length > 1200
                              THEN AIVerdict(35, TRUE) ELSE AIVerdict(82, FALSE)

-----------------------------------------------------------------------------
(* Filling the originality caches *)

MaxCorpus == 1001

DigitTokens == <<"0", "1", "2", "3", "4", "5", "6", "7", "8", "9">>

\* the n-th of a series of texts that differ from each other: x = <digits of n>
DigitOf(n, unit) == DigitTokens[((n \div unit) % 10) + 1]

NumberedCode(n) ==
    Code(<<L(FALSE, <<"x", "=", DigitOf(n, 1000), DigitOf(n, 100), DigitOf(n, 10), DigitOf(n, 1)>>,
             FALSE)>>, FALSE)

\* analyze / analyze_originality of one analyzer on a text it has not seen
SubmitFresh(analyzer, oracle) ==
    LET code == NumberedCode(requests)
        out == CASE analyzer = "backend" -> AnalyzeOriginality(code_cache.backend, code, oracle)
                 [] analyzer = "proctoring" -> ProctoringAnalyzeCode(code_cache.proctoring, code, oracle)
                 [] analyzer = "server" -> ServerAnalyzeCode(code_cache.server, code, oracle)
    IN  /\ OnlyAnalyzer(analyzer)
        /\ requests < MaxCorpus
        /\ requests' = requests + 1
        /\ code_cache' = [code_cache EXCEPT ![analyzer] = out.cache]
        /\ call' = AnalyzeResponse(analyzer, code, out)
        /\ UNCHANGED <<ruleEvents, ruleOut, expired, events, scores, llm_cache, tasks, serverVars, parseVars, limiterVars, clientVars, patternVars, snapshotVars, participantVars, interviewVars>>

NextCorpus ==
    \E a \in Analyzers : SubmitFresh(a, OracleVerdict(90, <<>>))

SpecCorpus == Init /\ [][NextCorpus]_vars

\* the key under which an analyzer caches a text
CacheKey(analyzer, code) ==
    CASE analyzer = "backend" -> HashCode(code)
      [] analyzer = "proctoring" -> GenerateCodeHash(code)
      [] analyzer = "server" -> ServerHashCode(code)

CacheKeys(analyzer) ==
    IF analyzer = "server"
    THEN {code_cache.server[i].key : i \in 1..Len(code_cache.server)}
    ELSE DOMAIN code_cache[analyzer]

\* C23: after every analyze call the cache holds at most its capacity of
\* entries, and the entry of the text just analysed is among them (eviction
\* removes the oldest entries).
C23_CorpusWithinCapacity ==
    \A a \in Analyzers :
        /\ Cardinality(CacheKeys(a)) <= CacheLimit
        /\ (call.op = "analyze" /\ call.analyzer = a) => CacheKey(a, call.code) \in CacheKeys(a)

-----------------------------------------------------------------------------
(* The pattern detector called on a window *)

MaxWindow == 6

PasteAt(timestamp) == Ev("clipboard_paste", {"textLength"}, 600, "normal", 1, timestamp)

\* events of every kind a pattern looks at
PatternAlphabet ==
    {Plain("tab_switch"), PasteAt(0), Plain("devtools_detected"), Plain("extension_detected"),
     Face("critical", 2), Face("warning", 1)}

\* pastes at moments more and less than five seconds apart
PasteAlphabet == {PasteAt(t) : t \in {0, 4999, 10000, 20000, 30000, 40000}}

\* the rule scores handed to _calculate_final_score
RuleScores == {0, 40 * Scale}

\* _analyze_by_rules: the critical_events it collects
CriticalEvents(evs) ==
    LET critical == SelectSeq(evs, LAMBDA e : e.event_type \in RuleTypes /\ EventRules[e.event_type].critical)
    IN  [i \in 1..Len(critical) |-> critical[i].event_type]

WindowInput(e) ==
    /\ Len(window) < MaxWindow
    /\ window' = Append(window, e)
    /\ detected' = NoDetection
    /\ UNCHANGED <<ruleEvents, ruleOut, expired, requests, events, scores, llm_cache, code_cache, tasks, call, serverVars, parseVars, limiterVars, clientVars, snapshotVars, participantVars, interviewVars>>

\* analyze_session after the rule analysis: the patterns, the unclamped final
\* score and the flags; and the flags of the standalone server
RunDetect(rule_score) ==
    /\ window /= <<>>
    /\ LET patterns == DetectSuspiciousPatterns(window)
       IN  detected' = [done |-> TRUE, patterns |-> patterns, rule_score |-> rule_score,
                        final_score |-> CalculateFinalScore(rule_score, patterns),
                        flagged_events |->
                            GetFlaggedEvents([critical_events |-> CriticalEvents(window)], patterns),
                        server_flagged |-> ServerFlaggedEvents(window)]
    /\ UNCHANGED <<ruleEvents, ruleOut, expired, requests, events, scores, llm_cache, code_cache, tasks, call, serverVars, parseVars, limiterVars, clientVars, window, snapshotVars, participantVars, interviewVars>>

NextPatterns ==
    \/ \E e \in PatternAlphabet : WindowInput(e)
    \/ \E r \in RuleScores : RunDetect(r)

SpecPatterns == Init /\ [][NextPatterns]_vars

NextPastes ==
    \/ \E e \in PasteAlphabet : WindowInput(e)
    \/ RunDetect(0)

SpecPastes == Init /\ [][NextPastes]_vars

PatternTypes(patterns) == {patterns[i].type : i \in 1..Len(patterns)}

RECURSIVE SumOver(_, _)
SumOver(S, f) ==
    IF S = {} THEN 0 ELSE LET x == CHOOSE y \in S : TRUE IN f[x] + SumOver(S \ {x}, f)

\* C26: the patterns add to the final score the sum, over the distinct pattern
\* types that fired, of 30 for a critical, 20 for a high and 10 for a medium
\* pattern; the detector reports no pattern type twice.
C26_PatternBonusOncePerType ==
    detected.done =>
        LET patterns == detected.patterns
            SeverityOf(type) == (CHOOSE i \in 1..Len(patterns) : patterns[i].type = type)
            Bonus(type) == CASE patterns[SeverityOf(type)].severity = "critical" -> 30
                             [] patterns[SeverityOf(type)].severity = "high" -> 20
                             [] patterns[SeverityOf(type)].severity = "medium" -> 10
        IN  /\ Cardinality(PatternTypes(patterns)) = Len(patterns)
            /\ detected.final_score - detected.rule_score
                   = SumOver(PatternTypes(patterns), [t \in PatternTypes(patterns) |-> Bonus(t)]) * Scale

\* three patterns of two severities fired on a window that meets the trigger
\* of one of them twice
C26_Witness ==
    /\ detected.done
    /\ Len(detected.patterns) >= 3
    /\ {detected.patterns[i].severity : i \in 1..Len(detected.patterns)} = {"critical", "high"}
    /\ Cardinality({i \in 1..Len(window) : window[i] = Face("critical", 2)}) >= 2

\* the positions of the pastes in the window
PastePositions(evs) == {i \in 1..Len(evs) : evs[i].event_type = "clipboard_paste"}

\* paste i is one of the five most recent pastes of the window
AmongFiveMostRecent(evs, i) ==
    Cardinality({j \in PastePositions(evs) :
                    \/ evs[j].timestamp > evs[i].timestamp
                    \/ evs[j].timestamp = evs[i].timestamp /\ j < i}) < 5

\* C27: rapid_pasting fires exactly when the window holds more than 3 pastes
\* and some two of the five most recent of them are less than 5000 apart, in
\* whatever order the events were supplied.
C27_RapidPastingExact ==
    detected.done =>
        LET recent == {i \in PastePositions(window) : AmongFiveMostRecent(window, i)}
        IN  "rapid_pasting" \in PatternTypes(detected.patterns)
                <=> /\ Cardinality(PastePositions(window)) > 3
                    /\ \E i, j \in recent :
                        /\ i < j
                        /\ Abs(window[i].timestamp - window[j].timestamp) < 5000

\* the pattern fired on pastes supplied out of order, none next to a close one
C27_Witness ==
    /\ detected.done
    /\ "rapid_pasting" \in PatternTypes(detected.patterns)
    /\ \A i \in 1..(Len(window) - 1) : Abs(window[i].timestamp - window[i + 1].timestamp) >= 5000

TabSwitches(evs) == Cardinality({i \in 1..Len(evs) : evs[i].event_type = "tab_switch"})

\* C28: excessive_tab_switching fires exactly when the window holds more than
\* 5 tab_switch events; six tab switches and nothing else fire that pattern
\* alone (medium, +10) and flag tab_switch; five or fewer flag nothing, in the
\* backend and in the standalone server.
C28_ExcessiveTabSwitching ==
    detected.done =>
        /\ "excessive_tab_switching" \in PatternTypes(detected.patterns) <=> TabSwitches(window) > 5
        /\ TabSwitches(window) = Len(window) =>
            IF Len(window) > 5
            THEN /\ detected.patterns = <<Pattern("excessive_tab_switching", "medium")>>
                 /\ detected.final_score - detected.rule_score = 10 * Scale
                 /\ detected.flagged_events = {"tab_switch"}
            ELSE /\ detected.flagged_events = {}
                 /\ detected.server_flagged = {}

-----------------------------------------------------------------------------
(* Repeats and paste bands in the rule engines *)

\* what the engine that ran gives one event as the first of its type
FirstScore(engine, e) ==
    IF engine /= "rule_based_scoring"
    THEN IF e.event_type \in RuleTypes THEN EventScore(e) ELSE 0
    ELSE EventWeight(<<e>>, 1)

RepeatMultiplier10(type) == IF type \in RuleTypes THEN EventRules[type].multiplier10 ELSE 10

RECURSIVE EscalatedSum(_, _, _)
EscalatedSum(engine, evs, i) ==
    IF i = 0 THEN 0
    ELSE EscalatedSum(engine, evs, i - 1)
         + Escalate(FirstScore(engine, evs[i]), RepeatMultiplier10(evs[i].event_type),
                    CountOf(evs, i, evs[i].event_type))

\* C29: in the list an engine analysed, the k-th event of a type contributes
\* its base (or dynamic) score times repeat_multiplier^(k-1), k counted from 1,
\* and the score is the sum of the contributions capped at 100; one
\* devtools_detected event alone scores exactly 30.
C29_RepeatsEscalate ==
    ruleOut.engine /= "none" =>
        /\ ruleOut.score
               = Min(100 * Scale, EscalatedSum(ruleOut.engine, ruleEvents, Len(ruleEvents)))
        /\ ruleEvents = <<Plain("devtools_detected")>> => ruleOut.score = 30 * Scale

PasteBand(text_length) ==
    IF text_length > 500 THEN 40
    ELSE IF text_length > 200 THEN 25
    ELSE IF text_length > 100 THEN 15
    ELSE IF text_length > 50 THEN 8
    ELSE 3

PasteBase(engine) ==
    IF engine /= "rule_based_scoring"
    THEN EventRules["clipboard_paste"].base_score
    ELSE EventWeights["clipboard_paste"]

\* C30: a clipboard_paste event analysed alone scores base_score plus the band
\* of its pasted length (+40 above 500, +25 above 200, +15 above 100, +8 above
\* 50, +3 otherwise), the length being 0 when the metadata is empty or has none.
C30_PasteBands ==
    /\ ruleOut.engine /= "none"
    /\ Len(ruleEvents) = 1
    /\ ruleEvents[1].event_type = "clipboard_paste"
    => ruleOut.score
           = (PasteBase(ruleOut.engine) + PasteBand(MetaGet(ruleEvents[1], "textLength", 0))) * Scale

-----------------------------------------------------------------------------
(* Events of a type the rule table does not know *)

KnownEvents(evs) == SelectSeq(evs, LAMBDA e : e.event_type \in RuleTypes)

\* C31: an event whose type is not in the rule table adds nothing to the rule
\* score and leaves the occurrence counts (and so the multipliers) of the known
\* types as they are without it, and the per-type counts reported for the
\* session still count it.
C31_UnknownTypeScoresZeroAndIsCounted ==
    ruleOut.engine = "analyze_session" =>
        /\ ruleOut.score = AnalyzeByRules(KnownEvents(ruleEvents)).score
        /\ ruleOut.event_counts = AnalyzeByRules(KnownEvents(ruleEvents)).event_counts
        /\ \A i \in 1..Len(ruleEvents) :
            /\ ruleEvents[i].event_type \in DOMAIN ruleOut.events_by_type
            /\ ruleOut.events_by_type[ruleEvents[i].event_type]
                   = CountOf(ruleEvents, Len(ruleEvents), ruleEvents[i].event_type)

\* an unknown event stood between two devtools_detected events of a session
C31_Witness ==
    /\ ruleOut.engine = "analyze_session"
    /\ ruleEvents = <<Plain("devtools_detected"), Plain("mouse_move"), Plain("devtools_detected")>>
    /\ ruleOut.score = 75 * Scale
    /\ ruleOut.events_by_type["mouse_move"] = 1

-----------------------------------------------------------------------------
(* The blend of the local and the oracle's originality score *)

\* texts the local pass scores 100, 90, 80 and 70
ThreeLines ==
    Code(<<L(FALSE, <<"x", "=", "1">>, FALSE), L(FALSE, <<"y", "=", "2">>, FALSE),
           L(FALSE, <<"z", "=", "3">>, FALSE)>>, FALSE)
ShortSolution == Code(<<L(FALSE, <<"def", "solution(", "value", ")", ":">>, FALSE)>>, FALSE)
TodoOnly == Code(<<L(FALSE, <<"//", "TODO:", "note">>, FALSE)>>, FALSE)

BlendCodes == {ThreeLines, Text1, ShortSolution, TodoOnly}

\* originality_score values in the oracle's JSON answer, which nothing validates
BlendVerdicts == {OracleVerdict(s, <<>>) : s \in {0, 50, 88, 100, 150}}

NextBlend == \E c \in BlendCodes, o \in BlendVerdicts : ProctoringAnalyze(c, o)

SpecBlend == Init /\ [][NextBlend]_vars

\* score is 0.3 * local + 0.7 * oracle rounded to a nearest integer and
\* clamped to [0,100]
IsBlend(score, local, oracle) ==
    LET tenfold == 3 * local + 7 * oracle IN
    IF tenfold <= 0 THEN score = 0
    ELSE IF tenfold >= 1000 THEN score = 100
    ELSE Abs(10 * score - tenfold) <= 5

\* C32: the originality score a fresh analysis returns is 0.3 * the local
\* score + 0.7 * the oracle's score, rounded to the nearest integer and
\* clamped to [0,100], for every pair of scores the two can produce.
C32_BlendRoundedAndClamped ==
    [][\A c \in BlendCodes, o \in BlendVerdicts :
          ProctoringAnalyze(c, o) /\ call'.oracle_called
          => IsBlend(call'.verdict.originality_score, LocalAnalysis(c), o.originality_score)]_vars

-----------------------------------------------------------------------------
(* Cosine similarity of two embeddings *)

MaxDim == 2

Components == {-1, 0, 1, 2}

Vectors == UNION {[1..n -> Components] : n \in 0..MaxDim}

RECURSIVE Dot(_, _, _)
\* sum(a * b for a, b in zip(vec1, vec2)) over the first n components
Dot(vec1, vec2, n) == IF n = 0 THEN 0 ELSE Dot(vec1, vec2, n - 1) + vec1[n] * vec2[n]

NormSq(vec) == Dot(vec, vec, Len(vec))

\* the number dot / (norms_sq ** 0.5), kept as the two integers
Quotient(dot, norms_sq) == [raised |-> FALSE, dot |-> dot, norms_sq |-> norms_sq]

\* the literal 0.0
ZeroSimilarity == Quotient(0, 1)

\* an exception that leaves the function
Raised == [raised |-> TRUE, dot |-> 0, norms_sq |-> 1]

\* server/analyzers/code_originality.py: _cosine_similarity without numpy.
CosinePurePython(vec1, vec2) ==
    IF Len(vec1) /= Len(vec2) THEN ZeroSimilarity
    ELSE IF NormSq(vec1) = 0 \/ NormSq(vec2) = 0 THEN ZeroSimilarity
    ELSE Quotient(Dot(vec1, vec2, Len(vec1)), NormSq(vec1) * NormSq(vec2))

\* server/analyzers/code_originality.py: _cosine_similarity with numpy, whose
\* np.dot raises ValueError on arrays of different lengths; the function
\* catches ImportError only.
CosineNumpy(vec1, vec2) ==
    IF Len(vec1) /= Len(vec2) THEN Raised
    ELSE IF NormSq(vec1) = 0 \/ NormSq(vec2) = 0 THEN ZeroSimilarity
    ELSE Quotient(Dot(vec1, vec2, Len(vec1)), NormSq(vec1) * NormSq(vec2))

\* interviewer/solution_checker.py: _cosine_similarity.
CheckerCosineSimilarity(emb1, emb2) ==
    IF emb1 = <<>> \/ emb2 = <<>> \/ Len(emb1) /= Len(emb2) THEN ZeroSimilarity
    ELSE IF NormSq(emb1) = 0 \/ NormSq(emb2) = 0 THEN ZeroSimilarity
    ELSE Quotient(Dot(emb1, emb2, Len(emb1)), NormSq(emb1) * NormSq(emb2))

CosineResponse(impl, vec1, vec2, result) ==
    [op |-> "cosine_similarity", impl |-> impl, vec1 |-> vec1, vec2 |-> vec2, result |-> result]

\* the server's function; whether numpy can be imported is the installation's
ServerCosine(vec1, vec2, numpy) ==
    /\ call' = CosineResponse("server", vec1, vec2,
                              IF numpy THEN CosineNumpy(vec1, vec2) ELSE CosinePurePython(vec1, vec2))
    /\ UNCHANGED <<ruleEvents, ruleOut, expired, requests, events, scores, llm_cache, code_cache, tasks, serverVars, parseVars, limiterVars, clientVars, patternVars, snapshotVars, participantVars, interviewVars>>

CheckerCosine(emb1, emb2) ==
    /\ call' = CosineResponse("solution_checker", emb1, emb2, CheckerCosineSimilarity(emb1, emb2))
    /\ UNCHANGED <<ruleEvents, ruleOut, expired, requests, events, scores, llm_cache, code_cache, tasks, serverVars, parseVars, limiterVars, clientVars, patternVars, snapshotVars, participantVars, interviewVars>>

NextCosine ==
    \/ \E vec1, vec2 \in Vectors, numpy \in BOOLEAN : ServerCosine(vec1, vec2, numpy)
    \/ \E emb1, emb2 \in Vectors : CheckerCosine(emb1, emb2)

SpecCosine == Init /\ [][NextCosine]_vars

IsZeroOrEmpty(vec) == \A i \in 1..Len(vec) : vec[i] = 0

\* C33: cosine similarity returns the value 0, and raises nothing, when either
\* vector is all-zero or empty or the two differ in length, and returns 1 for a
\* non-zero vector compared with itself.
C33_CosineDegenerateCases ==
    call.op = "cosine_similarity" =>
        /\ (IsZeroOrEmpty(call.vec1) \/ IsZeroOrEmpty(call.vec2) \/ Len(call.vec1) /= Len(call.vec2))
           => ~call.result.raised /\ call.result.dot = 0
        /\ (call.vec1 = call.vec2 /\ ~IsZeroOrEmpty(call.vec1))
           => /\ ~call.result.raised
              /\ call.result.dot > 0
              /\ call.result.dot * call.result.dot = call.result.norms_sq

-----------------------------------------------------------------------------
(* One session's operations and the other sessions' scores *)

\* a step of a request or of a background task of the session
OnSession(s) ==
    \/ \E b \in Batches : IngestStore(s, b)
    \/ \E c \in SnapshotCodes, o \in OracleVerdicts : SnapshotAnalyze(s, c, o)
    \/ \E n \in LlmLens, e \in LlmElapsed, a \in LlmResults : LlmCall(s, n, e, a)
    \/ GetRiskScore(s)
    \/ \E t \in Suspended :
        /\ t.session_id = s
        /\ \/ IngestAnalyze(t) \/ IngestUpdate(t) \/ FlagRead(t) \/ FlagUpdate(t)
           \/ LlmStore(t) \/ LlmRecommend(t)

\* C34: a step of any operation on one session (event ingestion, score update,
\* flag_suspicious_code, deep-oracle result, recommendation update) leaves the
\* stored score of every other session as it was.
C34_OtherSessionsUntouched ==
    [][\A s \in Sessions :
          OnSession(s) =>
              \A other \in Sessions \ {s} :
                  GetSessionScore(scores', other) = GetSessionScore(scores, other)]_vars

\* a deep analysis stored its recommendation for S1 while S2 had a record of
\* ingested events
C34_Witness ==
    /\ DOMAIN scores = Sessions
    /\ scores["S1"].llm_recommendation /= None
    /\ scores["S2"].llm_recommendation = None
    /\ scores["S2"].rule_based_score > 0

-----------------------------------------------------------------------------
(* The code flag and later events *)

\* C35: when a session's stored score carries the "suspicious_code" flag that
\* flag_suspicious_code added with its penalty, an event ingestion for that
\* session that completes later leaves the flag in the stored flagged events
\* and the stored rule score above the score of the events alone (or at 100).
C35_CodeFlagSurvivesIngestion ==
    [][\A t \in Suspended :
          /\ IngestUpdate(t)
          /\ t.session_id \in DOMAIN scores
          /\ "suspicious_code" \in scores[t.session_id].flagged_events
          => /\ "suspicious_code" \in scores'[t.session_id].flagged_events
             /\ \/ scores'[t.session_id].rule_based_score > t.rule_based_score
                \/ scores'[t.session_id].rule_based_score >= 100 * Scale]_vars

-----------------------------------------------------------------------------
(* The standalone server's code snapshots and their background analysis *)

SnapshotTask(session_id, code, pc) ==
    [op |-> "analyze_code_originality_async", session_id |-> session_id, code |-> code, pc |-> pc]

\* analyze_code_originality_async after analyze returned: the session's risk
\* record gets the verdict if the session has a record
WithCodeAnalysis(stored, session_id, analysis_result) ==
    IF session_id \in DOMAIN stored
    THEN [stored EXCEPT ![session_id] =
              [code_originality_score |-> analysis_result.originality_score,
               code_analysis |-> analysis_result]
              @@ [k \in DOMAIN stored[session_id]
                        \ {"code_originality_score", "code_analysis"} |-> stored[session_id][k]]]
    ELSE stored

\* receive_code_snapshot: the snapshot is kept, the analysis is left to a task
\* and the answer is "queued".
ServerSnapshot(session_id, code) ==
    /\ requests < MaxRequests
    /\ BagCardinality(tasks) < MaxTasks
    /\ requests' = requests + 1
    /\ code_snapshots' = DictPut(code_snapshots, session_id,
                                 (IF session_id \in DOMAIN code_snapshots
                                  THEN code_snapshots[session_id] ELSE <<>>) \o <<code>>)
    /\ tasks' = Spawn(SnapshotTask(session_id, code, "start"))
    /\ call' = [op |-> "server_receive_code_snapshot", status |-> "queued",
                session_id |-> session_id]
    /\ UNCHANGED <<ruleEvents, ruleOut, expired, events, scores, llm_cache, code_cache, serverVars, parseVars, limiterVars, clientVars, patternVars, participantVars, interviewVars>>

\* The task up to the oracle's round trip in analyze, or, when the code is in
\* the analyzer's cache, to its end.
OriginalityStart(t) ==
    /\ t.op = "analyze_code_originality_async" /\ t.pc = "start"
    /\ IF GenerateCodeHash(t.code) \in DOMAIN code_cache.proctoring
       THEN /\ risk_scores' = WithCodeAnalysis(risk_scores, t.session_id,
                                  [code_cache.proctoring[GenerateCodeHash(t.code)]
                                      EXCEPT !.cached = Some(TRUE)])
            /\ tasks' = Finish(t)
       ELSE /\ tasks' = Resume(t, [t EXCEPT !.pc = "oracle"])
            /\ UNCHANGED risk_scores
    /\ UNCHANGED <<ruleEvents, ruleOut, expired, requests, events, scores, llm_cache, code_cache, call, events_storage, oracle_calls, parseVars, limiterVars, clientVars, patternVars, snapshotVars, participantVars, interviewVars>>

\* The task from the oracle's answer to its end.
OriginalityFinish(t, oracle) ==
    /\ t.op = "analyze_code_originality_async" /\ t.pc = "oracle"
    /\ LET result == ProctoringAnalyzeCode(<<>>, t.code, oracle).verdict IN
       /\ code_cache' = [code_cache EXCEPT
                            !.proctoring = DictPut(@, GenerateCodeHash(t.code), result)]
       /\ risk_scores' = WithCodeAnalysis(risk_scores, t.session_id, result)
    /\ tasks' = Finish(t)
    /\ UNCHANGED <<ruleEvents, ruleOut, expired, requests, events, scores, llm_cache, call, events_storage, oracle_calls, parseVars, limiterVars, clientVars, patternVars, snapshotVars, participantVars, interviewVars>>

\* the events a session posts beside its code
SnapshotBatches == {<<Plain("tab_switch")>>}

NextSnapshots ==
    \/ \E s \in Sessions, b \in SnapshotBatches : ServerReceive(s, b)
    \/ \E s \in Sessions, c \in SnapshotCodes : ServerSnapshot(s, c)
    \/ \E t \in Suspended : OriginalityStart(t)
    \/ \E t \in Suspended, o \in OracleVerdicts : OriginalityFinish(t, o)

SpecSnapshots == Init /\ [][NextSnapshots]_vars

HasCodeVerdict(stored, s) ==
    s \in DOMAIN stored /\ "code_originality_score" \in DOMAIN stored[s]

\* the task of session s for which this step is the last
Completes(s) ==
    \E t \in Suspended :
        /\ t.op = "analyze_code_originality_async" /\ t.session_id = s
        /\ OriginalityStart(t) \/ \E o \in OracleVerdicts : OriginalityFinish(t, o)
        /\ tasks' = Finish(t)

\* C36: when a background originality analysis completes for a session, the
\* session's score record holds its verdict, and a record that holds a verdict
\* holds one after every later step, event ingestion included.
C36_CodeVerdictKept ==
    [][\A s \in Sessions :
          /\ Completes(s) => HasCodeVerdict(risk_scores', s)
          /\ HasCodeVerdict(risk_scores, s) => HasCodeVerdict(risk_scores', s)]_vars

-----------------------------------------------------------------------------
(* Deep analyses that share a cache key *)

\* the request_llm_analysis calls that asked the oracle and have not returned
LlmInFlight == {t \in Suspended : t.op = "request_llm_analysis"}

\* C37: of the request_llm_analysis calls under way with one cache key, one at
\* most has asked the oracle, and all of them hand back the same result.
C37_SharedKeyAsksOracleOnce ==
    \A t1, t2 \in LlmInFlight :
        t1.cache_key = t2.cache_key =>
            /\ t1 = t2
            /\ CopiesIn(t1, tasks) = 1
            /\ t1.llm_result = t2.llm_result

-----------------------------------------------------------------------------
(* The participant service: backend/app/service.py *)

MaxPastes == 6

Participants == {"P1"}
PasteLengths == {0, 600}
ExtensionNames == {"ext-a", "ext-b"}
EventTimes == {1, 2}

\* is_copied of the verdicts score_originality hands back
SubmissionVerdicts == {[is_copied |-> TRUE], [is_copied |-> FALSE]}

\* ParticipantState.__init__; updated_at 0 is the time of creation
NewParticipantState(participant_id) ==
    [participant_id |-> participant_id, paste_events |-> 0, paste_volume |-> 0,
     large_pastes |-> 0, suspicious_extensions |-> <<>>, devtools_opened |-> FALSE,
     ai_verdict |-> None, updated_at |-> 0]

\* ParticipantState.calculate_risk
CalculateRisk(state) ==
    LET pasted == IF state.large_pastes > 0 THEN 25 ELSE 0
        often == IF state.paste_events > 5 THEN pasted + 20 ELSE pasted
        extended == IF state.suspicious_extensions /= <<>> THEN often + 30 ELSE often
        copied == IF state.ai_verdict /= None /\ state.ai_verdict[1].is_copied
                  THEN extended + 50 ELSE extended
        score == IF state.devtools_opened THEN Min(copied + 10, 100) ELSE copied
    IN Min(score, 100)

\* ProctoringService._get_state
GetState(stored, participant_id) ==
    IF participant_id \in DOMAIN stored
    THEN stored[participant_id]
    ELSE NewParticipantState(participant_id)

\* DevTools taken as open or closed by the last event alone
DevtoolsOpenedLast(devtools_opened, opened) == opened

\* _handle_devtools: state.devtools_opened or event.opened
DevtoolsOpened(devtools_opened, opened) == devtools_opened \/ opened

\* to_metrics in the answer of ingest_event
IngestResponse(type, payload, state) ==
    [op |-> "ingest_event", type |-> type, payload |-> payload,
     participant_id |-> state.participant_id, risk_score |-> CalculateRisk(state)]

HandlePaste(participant_id, length, timestamp) ==
    LET state == GetState(participants, participant_id)
        next == [state EXCEPT !.paste_events = @ + 1,
                              !.paste_volume = @ + length,
                              !.large_pastes = IF length > 500 THEN @ + 1 ELSE @,
                              !.updated_at = timestamp]
    IN /\ state.paste_events < MaxPastes
       /\ participants' = DictPut(participants, participant_id, next)
       /\ call' = IngestResponse("paste", [length |-> length], next)
       /\ UNCHANGED <<ruleEvents, ruleOut, expired, requests, events, scores, llm_cache, code_cache, tasks, serverVars, parseVars, limiterVars, clientVars, patternVars, snapshotVars, interviewVars>>

HandleExtension(participant_id, extension_name, timestamp) ==
    LET state == GetState(participants, participant_id)
        next == [state EXCEPT !.suspicious_extensions =
                                  IF \E i \in 1..Len(@) : @[i] = extension_name
                                  THEN @ ELSE Append(@, extension_name),
                              !.updated_at = timestamp]
    IN /\ participants' = DictPut(participants, participant_id, next)
       /\ call' = IngestResponse("extension", [extension_name |-> extension_name], next)
       /\ UNCHANGED <<ruleEvents, ruleOut, expired, requests, events, scores, llm_cache, code_cache, tasks, serverVars, parseVars, limiterVars, clientVars, patternVars, snapshotVars, interviewVars>>

HandleDevtools(participant_id, opened, timestamp) ==
    LET state == GetState(participants, participant_id)
        next == [state EXCEPT !.devtools_opened = DevtoolsOpened(@, opened),
                              !.updated_at = timestamp]
    IN /\ participants' = DictPut(participants, participant_id, next)
       /\ call' = IngestResponse("devtools", [opened |-> opened], next)
       /\ UNCHANGED <<ruleEvents, ruleOut, expired, requests, events, scores, llm_cache, code_cache, tasks, serverVars, parseVars, limiterVars, clientVars, patternVars, snapshotVars, interviewVars>>

\* analyze_submission up to the await of score_originality
SubmissionStart(participant_id, timestamp) ==
    /\ BagCardinality(tasks) < MaxTasks
    /\ participants' = DictPut(participants, participant_id,
                               GetState(participants, participant_id))
    /\ tasks' = Spawn([op |-> "analyze_submission", participant_id |-> participant_id,
                       timestamp |-> timestamp])
    /\ UNCHANGED <<ruleEvents, ruleOut, expired, requests, events, scores, llm_cache, code_cache, call, serverVars, parseVars, limiterVars, clientVars, patternVars, snapshotVars, interviewVars>>

\* analyze_submission from the verdict on
SubmissionFinish(t, verdict) ==
    /\ t.op = "analyze_submission"
    /\ LET next == [participants[t.participant_id] EXCEPT !.ai_verdict = Some(verdict),
                                                           !.updated_at = t.timestamp]
       IN /\ participants' = [participants EXCEPT ![t.participant_id] = next]
          /\ call' = [op |-> "analyze_submission", participant_id |-> t.participant_id,
                      risk_score |-> CalculateRisk(next)]
    /\ tasks' = Finish(t)
    /\ UNCHANGED <<ruleEvents, ruleOut, expired, requests, events, scores, llm_cache, code_cache, serverVars, parseVars, limiterVars, clientVars, patternVars, snapshotVars, interviewVars>>

\* ingest_event, by the type of the envelope
IngestEvent ==
    \/ \E p \in Participants, n \in PasteLengths, ts \in EventTimes : HandlePaste(p, n, ts)
    \/ \E p \in Participants, x \in ExtensionNames, ts \in EventTimes : HandleExtension(p, x, ts)
    \/ \E p \in Participants, o \in BOOLEAN, ts \in EventTimes : HandleDevtools(p, o, ts)

NextParticipants ==
    \/ IngestEvent
    \/ \E p \in Participants, ts \in EventTimes : SubmissionStart(p, ts)
    \/ \E t \in Suspended, v \in SubmissionVerdicts : SubmissionFinish(t, v)

SpecParticipants == Init /\ [][NextParticipants]_vars

RiskScore(stored, p) == CalculateRisk(GetState(stored, p))

\* C38: no ingest_event call (paste, extension, devtools, a devtools event
\* with opened=false included) lowers a participant's risk_score.
C38_IngestionNeverLowersRisk ==
    [][IngestEvent =>
          \A p \in Participants : RiskScore(participants', p) >= RiskScore(participants, p)]_vars

\* a devtools event with opened=false was ingested for a participant whose
\* DevTools had been seen open, and the 10 points are still in the score
C38_Witness ==
    /\ call.op = "ingest_event"
    /\ call.type = "devtools"
    /\ ~call.payload.opened
    /\ call.participant_id \in DOMAIN participants
    /\ participants[call.participant_id].devtools_opened
    /\ call.risk_score = 10

-----------------------------------------------------------------------------
(* The interview session: interviewer/interview_session.py *)

InterviewIds == {"I1"}
NumTasks == {1, 2, 3}
SolutionCodes == {"code-a", "code-b"}
EvaluationScores == {40, 90}

\* start_interview: the session is stored after the awaits of the resume
\* analysis and of the first task, none of which touches self.sessions.  A
\* task stands for its task_id, here its task_number.
StartInterview(session_id, num_tasks) ==
    /\ session_id \notin DOMAIN interviews
    /\ interviews' = DictPut(interviews, session_id,
                             [tasks |-> <<1>>, solutions |-> <<>>, scores |-> <<>>,
                              num_tasks |-> num_tasks, current_task_index |-> 0,
                              status |-> "in_progress"])
    /\ call' = [op |-> "start_interview", session_id |-> session_id,
                status |-> "in_progress"]
    /\ UNCHANGED <<ruleEvents, ruleOut, expired, requests, events, scores, llm_cache, code_cache, tasks, serverVars, parseVars, limiterVars, clientVars, patternVars, snapshotVars, participantVars>>

\* submit_solution up to the await of check_solution
SubmitSolutionStart(session_id, solution_code) ==
    /\ BagCardinality(tasks) < MaxTasks
    /\ IF session_id \notin DOMAIN interviews
       THEN /\ call' = [op |-> "submit_solution", session_id |-> session_id,
                        raised |-> "ValueError"]
            /\ UNCHANGED tasks
       ELSE LET session == interviews[session_id]
            IN IF session.current_task_index + 1 > Len(session.tasks)
               THEN /\ call' = [op |-> "submit_solution", session_id |-> session_id,
                                raised |-> "IndexError"]
                    /\ UNCHANGED tasks
               ELSE /\ tasks' = Spawn([op |-> "submit_solution", session_id |-> session_id,
                                       pc |-> "check_solution",
                                       current_task |-> session.tasks[session.current_task_index + 1],
                                       solution_code |-> solution_code,
                                       score |-> 0, task_number |-> 0])
                    /\ UNCHANGED call
    /\ UNCHANGED <<ruleEvents, ruleOut, expired, requests, events, scores, llm_cache, code_cache, serverVars, parseVars, limiterVars, clientVars, patternVars, snapshotVars, participantVars, interviewVars>>

\* submit_solution from the evaluation to its next await: the solution and
\* the score are recorded and current_task_index moves on
SubmitSolutionRecord(t, score) ==
    /\ t.op = "submit_solution"
    /\ t.pc = "check_solution"
    /\ LET session == interviews[t.session_id]
           index == session.current_task_index + 1
           interview_complete == index >= session.num_tasks
           recorded == [session EXCEPT
                           !.solutions = Append(@, [task_id |-> t.current_task,
                                                    code |-> t.solution_code,
                                                    score |-> score]),
                           !.scores = Append(@, score),
                           !.current_task_index = index]
       IN /\ interviews' = [interviews EXCEPT ![t.session_id] =
                               IF interview_complete
                               THEN [recorded EXCEPT !.status = "completed"]
                               ELSE recorded]
          /\ tasks' = Resume(t, [t EXCEPT !.pc = IF interview_complete
                                                 THEN "generate_final_report"
                                                 ELSE "generate_task",
                                          !.score = score,
                                          !.task_number = index + 1])
    /\ UNCHANGED <<ruleEvents, ruleOut, expired, requests, events, scores, llm_cache, code_cache, call, serverVars, parseVars, limiterVars, clientVars, patternVars, snapshotVars, participantVars>>

\* submit_solution after the await of generate_task
SubmitSolutionNextTask(t) ==
    /\ t.op = "submit_solution"
    /\ t.pc = "generate_task"
    /\ interviews' = [interviews EXCEPT ![t.session_id].tasks = Append(@, t.task_number)]
    /\ tasks' = Finish(t)
    /\ call' = [op |-> "submit_solution", session_id |-> t.session_id,
                score |-> t.score, next_task |-> Some(t.task_number),
                interview_complete |-> FALSE,
                completed_tasks |-> interviews'[t.session_id].current_task_index]
    /\ UNCHANGED <<ruleEvents, ruleOut, expired, requests, events, scores, llm_cache, code_cache, serverVars, parseVars, limiterVars, clientVars, patternVars, snapshotVars, participantVars>>

\* submit_solution after the await of generate_final_report, which reads the
\* session and writes nothing
SubmitSolutionFinalReport(t) ==
    /\ t.op = "submit_solution"
    /\ t.pc = "generate_final_report"
    /\ tasks' = Finish(t)
    /\ call' = [op |-> "submit_solution", session_id |-> t.session_id,
                score |-> t.score, next_task |-> None,
                interview_complete |-> TRUE,
                completed_tasks |-> Len(interviews[t.session_id].scores)]
    /\ UNCHANGED <<ruleEvents, ruleOut, expired, requests, events, scores, llm_cache, code_cache, serverVars, parseVars, limiterVars, clientVars, patternVars, snapshotVars, participantVars, interviewVars>>

NextInterview ==
    \/ \E s \in InterviewIds, n \in NumTasks : StartInterview(s, n)
    \/ \E s \in InterviewIds, c \in SolutionCodes : SubmitSolutionStart(s, c)
    \/ \E t \in Suspended, v \in EvaluationScores : SubmitSolutionRecord(t, v)
    \/ \E t \in Suspended : SubmitSolutionNextTask(t)
    \/ \E t \in Suspended : SubmitSolutionFinalReport(t)

SpecInterview == Init /\ [][NextInterview]_vars

\* C39: whatever the interleaving of the submit_solution calls of a session,
\* no task has more than one recorded solution, current_task_index is at most
\* num_tasks, and as many solutions as scores are recorded, current_task_index
\* of each.
C39_OneSolutionPerTask ==
    \A s \in DOMAIN interviews :
        LET session == interviews[s]
        IN /\ \A i, j \in 1..Len(session.solutions) :
                  session.solutions[i].task_id = session.solutions[j].task_id => i = j
           /\ session.current_task_index <= session.num_tasks
           /\ Len(session.solutions) = session.current_task_index
           /\ Len(session.scores) = session.current_task_index

=============================================================================
